---- MODULE Spec2Model ----
(***************************************************************************)
(* Model of the Flask image processor (src/flask_app/app.py): one browser  *)
(* session, the Drive scratch folder, the access token's life cycle and    *)
(* the request handlers that read and write them.  Every handler is one    *)
(* action; what the outside world answers (Drive, the token endpoint, the  *)
(* file system, the detectors) is chosen with \E from small sets.          *)
(***************************************************************************)
EXTENDS Integers, Sequences, FiniteSets, TLC

\* session, scratch, expired, resp, log: one browser session served request
\* by request.  call: a function of the repository applied to arguments, on
\* its own.  disk, req: the folders all sessions share, and the requests of
\* several sessions while they run side by side.
VARIABLES session, scratch, expired, resp, log, call, disk, req

vars == <<session, scratch, expired, resp, log, call, disk, req>>

\* the variables of the single-session view
web == <<session, scratch, expired, resp, log>>

----------------------------------------------------------------------------
(* Bounds *)

\* longest collection a listing, a scan or an upload delivers
MaxItems == 3
\* most chunks a download is split in
MaxChunks == 2

----------------------------------------------------------------------------
(* The session: a dict.  keys holds the keys that are present; a key that  *)
(* is absent keeps the neutral value of EmptySession in its field.         *)

RequiredFields == {"token", "refresh_token", "token_uri", "client_id", "client_secret", "scopes"}

\* access tokens; an exchange never hands back the token it replaces
Tokens == {"t0", "t1"}

NoCreds == [fields |-> {}, token |-> "", has_rt |-> FALSE]

EmptySession ==
  [keys |-> {},
   image_paths |-> <<>>,
   current_index |-> 0,
   selected_google_drive_folder_id |-> "",
   drive_image_files |-> <<>>,
   current_drive_image_index |-> 0,
   is_server_mode |-> FALSE,
   server_image_files |-> <<>>,
   current_server_image_index |-> 0,
   google_credentials |-> NoCreds,
   state |-> ""]

Has(s, k) == k \in s.keys

Get(s, k, default) == IF Has(s, k) THEN s[k] ELSE default

Put(s, k, v) == [s EXCEPT !.keys = @ \cup {k}, ![k] = v]

Pop(s, k) == [s EXCEPT !.keys = @ \ {k}, ![k] = EmptySession[k]]

RECURSIVE PopAll(_, _)
PopAll(s, ks) ==
  IF ks = <<>> THEN s ELSE PopAll(Pop(s, Head(ks)), Tail(ks))

----------------------------------------------------------------------------
(* Responses and the event log of the request being answered *)

NoResp ==
  [op |-> "", status |-> 0, redirect |-> "", error |-> "", requested |-> {},
   exc |-> "", payload |-> {}, stored |-> FALSE, arg |-> ""]

Ev(e, p) == [ev |-> e, path |-> p]

CountEv(l, e) == Cardinality({i \in 1..Len(l) : l[i].ev = e})

PosOf(l, e) == {i \in 1..Len(l) : l[i].ev = e}

----------------------------------------------------------------------------
(* Names.  Display names come from a fixed cycle; secure_filename is the   *)
(* werkzeug function on exactly these names.                               *)

NameCycle == <<"a.jpg", "a.jpg", "../a.jpg", "a.jpg", "b c.jpg", "???", "">>

NameAt(k) == NameCycle[((k - 1) % Len(NameCycle)) + 1]

secure_filename(n) ==
  CASE n = "a.jpg" -> "a.jpg"
    [] n = "b c.jpg" -> "b_c.jpg"
    [] n = "../a.jpg" -> "a.jpg"
    [] n = "sub/b.png" -> "sub_b.png"
    [] n = "x.txt" -> "x.txt"
    [] n = "???" -> ""
    [] OTHER -> ""

\* the folder of the account (a second one behaves the same)
DriveFolders == {"F1"}

\* the k-th image of Drive folder f, as files().list() reports it
DriveItem(f, k) == [id |-> f \o "_" \o ToString(k), name |-> NameAt(k)]

DriveListing(f, n) == [k \in 1..n |-> DriveItem(f, k)]

----------------------------------------------------------------------------
(* Exceptions a library call can raise *)

NoExc == [kind |-> "", status |-> 0]

HttpStatuses == {401, 403, 404}

HttpError(st) == [kind |-> "HttpError", status |-> st]

ValueError == [kind |-> "ValueError", status |-> 0]

Exception == [kind |-> "Exception", status |-> 0]

\* what a call of the Drive client raises: an HttpError, or anything else
\* (a network failure)
RemoteErrors == {HttpError(st) : st \in HttpStatuses} \cup {Exception}

----------------------------------------------------------------------------
(* process_image: an image is the set of annotations drawn on it.          *)
(* qr    : what detect_and_draw_qrcodes does - "raise", "nocodes" (returns *)
(*         ([original], [], [])), "drawn" (an annotated copy, no finding), *)
(*         "found" (an annotated copy and one finding)                     *)
(* board : what detect_charuco_board does - "raise", "None" (no image),    *)
(*         "nomarkers", "markers" (markers, no corner), "nocorners"        *)
(*         (markers and an empty array of corners), "corners"              *)
(* enc   : the final cv_image_to_base64 raises                             *)

QrOutcomes == {"raise", "nocodes", "drawn", "found"}

BoardOutcomes == {"raise", "None", "nomarkers", "markers", "nocorners", "corners"}

ProcEnvs == [qr : QrOutcomes, board : BoardOutcomes, enc : BOOLEAN]

cv_image_to_base64(img) == [jpeg |-> img]

NoResult ==
  [original_image |-> {}, processed_image |-> {}, charuco_detected |-> FALSE,
   qr_codes |-> <<>>, qr_codes_json |-> <<>>]

\* (variant: the picture the stage drew on before raising is carried on)
QrStageAnnotatedOnRaise(cv_image, pe) ==
  IF pe.qr \in {"drawn", "found"}
  THEN [image |-> cv_image \cup {"qr"},
        texts |-> IF pe.qr = "found" THEN <<"text">> ELSE <<>>,
        jsons |-> IF pe.qr = "found" THEN <<"json">> ELSE <<>>]
  ELSE IF pe.qr = "nocodes"
  THEN [image |-> cv_image, texts |-> <<>>, jsons |-> <<>>]
  ELSE [image |-> cv_image \cup {"qr"}, texts |-> <<>>, jsons |-> <<>>]

\* lines 290-306: the QR stage; returns the image carried on and the findings
QrStage(cv_image, pe) ==
  IF pe.qr \in {"drawn", "found"}
  THEN [image |-> cv_image \cup {"qr"},
        texts |-> IF pe.qr = "found" THEN <<"text">> ELSE <<>>,
        jsons |-> IF pe.qr = "found" THEN <<"json">> ELSE <<>>]
  ELSE IF pe.qr = "nocodes"
  THEN [image |-> cv_image, texts |-> <<>>, jsons |-> <<>>]
  ELSE [image |-> cv_image, texts |-> <<>>, jsons |-> <<>>]

\* Python's None, and a value that is not None
None == <<>>

Some(x) == <<x>>

\* a picture handed over as a NumPy array
Array(image) == [type |-> "ndarray", image |-> image, loads |-> TRUE]

\* what CharucoDetector.detectBoard answers for each outcome: the ids of the
\* interpolated corners and of the markers, None or an array of that length
\* (two corners, four markers)
BoardFound(outcome) ==
  CASE outcome = "corners" -> [charucoIds |-> Some(2), markerIds |-> Some(4)]
    [] outcome = "nocorners" -> [charucoIds |-> Some(0), markerIds |-> Some(4)]
    [] outcome = "markers" -> [charucoIds |-> None, markerIds |-> Some(4)]
    [] OTHER -> [charucoIds |-> None, markerIds |-> None]

\* src/charuco_detector.py lines 33-136: the five values returned
detect_charuco_board(image_input, dictionary_ok, found) ==
  LET failure == [img |-> None, charucoCorners |-> None, charucoIds |-> None,
                  markerCorners |-> None, markerIds |-> None]
  IN IF image_input.type = "str" /\ ~image_input.loads THEN failure
     ELSE IF image_input.type \notin {"str", "ndarray"} THEN failure
     ELSE IF ~dictionary_ok THEN failure
     ELSE LET img == IF found.markerIds # None /\ found.charucoIds # None
                     THEN image_input.image \cup {"charuco", "markers"}
                     ELSE image_input.image
          IN [img |-> Some(img),
              charucoCorners |-> found.charucoIds, charucoIds |-> found.charucoIds,
              markerCorners |-> found.markerIds, markerIds |-> found.markerIds]

\* what the stage is handed by the detector (nothing when it raises)
BoardAnswer(image, pe) ==
  detect_charuco_board(Array(image), pe.board # "None", BoardFound(pe.board))

\* (variant: markers alone count as a detected board)
MatchedByMarkers(t) == t.markerIds # None /\ t.markerIds[1] > 0

\* line 319: `charuco_ids is not None and len(charuco_ids) > 0`
Matched(t) == t.charucoIds # None /\ t.charucoIds[1] > 0

\* lines 308-329: the ChArUco stage on the image the QR stage left
BoardStage(image, pe) ==
  IF pe.board = "raise" THEN [image |-> image, detected |-> FALSE]
  ELSE LET t == BoardAnswer(image, pe)
       IN IF t.img # None
          THEN [image |-> t.img[1], detected |-> Matched(t)]
          ELSE [image |-> image, detected |-> FALSE]

\* lines 266-336
process_image(load_ok, pe, return_image_object) ==
  IF ~load_ok
  THEN [raised |-> FALSE, result |-> NoResult, image |-> {}]
  ELSE LET cv_image == {}
           q == QrStage(cv_image, pe)
           b == BoardStage(q.image, pe)
       IN IF return_image_object
          THEN [raised |-> FALSE, result |-> NoResult, image |-> {b.image}]
          ELSE IF pe.enc
          THEN [raised |-> TRUE, result |-> NoResult, image |-> {}]
          ELSE [raised |-> FALSE,
                result |-> [original_image |-> {cv_image_to_base64(cv_image)},
                            processed_image |-> {cv_image_to_base64(b.image)},
                            charuco_detected |-> b.detected,
                            qr_codes |-> q.texts,
                            qr_codes_json |-> q.jsons],
                image |-> {b.image}]


----------------------------------------------------------------------------
(* The batch script, src/batch_process_qrs.py, with the detectors of the   *)
(* same directory. A file of the directory is its name (root and           *)
(* extension), whether cv2.imread loads it, and what the detectors find in *)
(* it.                                                                     *)

SUPPORTED_IMAGE_EXTENSIONS == {".png", ".jpg", ".jpeg", ".bmp", ".tiff", ".tif", ".webp"}

\* str.lower() on the extensions the directories hold
Lower(ext) == IF ext = ".PNG" THEN ".png" ELSE ext

\* a picture named by its path
Path(f) == [type |-> "str", image |-> {}, loads |-> f.loads]

\* the tuple a function returned, handed on as one value
Tuple(t) == [type |-> "tuple", image |-> {}, loads |-> FALSE]

\* src/detect_and_draw_qr.py lines 6-142; codes: the number of QR codes
\* QReader.detect finds. With none found, line 137 reads the undefined name
\* image_path.
detect_and_draw_qrcodes(image_input, codes) ==
  IF image_input.type = "str" /\ ~image_input.loads
  THEN [raised |-> "", list |-> None]
  ELSE IF image_input.type \notin {"str", "ndarray"}
  THEN [raised |-> "", list |-> None]
  ELSE IF codes > 0
  THEN [raised |-> "",
        list |-> Some(<<image_input.image \cup {"qr"}>>
                        \o [i \in 1..codes |-> {"crop"}])]
  ELSE [raised |-> "NameError", list |-> None]

\* lines 116-137: the files written for one picture
SavedFiles(f, list_of_images) ==
  {[root |-> f.root \o "_qr_all", ext |-> f.ext, image |-> list_of_images[1]]}
    \cup {[root |-> f.root \o "_qr_" \o ToString(i), ext |-> f.ext,
           image |-> list_of_images[i + 1]] : i \in 1..(Len(list_of_images) - 1)}

NoBatch ==
  [raised |-> "", saved |-> {}, processed_files_count |-> 0, image_files_found |-> 0]

\* lines 100-142, for the files from position k on; b: the run so far
RECURSIVE BatchFrom(_, _, _)
BatchFrom(files, k, b) ==
  IF k > Len(files) \/ b.raised # "" THEN b
  ELSE LET f == files[k]
       IN IF Lower(f.ext) \notin SUPPORTED_IMAGE_EXTENSIONS
          THEN BatchFrom(files, k + 1, b)
          ELSE
          LET charuco_image == detect_charuco_board(Path(f), TRUE, BoardFound(f.board))
              q == detect_and_draw_qrcodes(Tuple(charuco_image), f.codes)
              b1 == [b EXCEPT !.image_files_found = @ + 1]
          IN IF q.raised # "" THEN [b1 EXCEPT !.raised = q.raised]
             ELSE IF q.list # None /\ Len(q.list[1]) > 0
             THEN BatchFrom(files, k + 1,
                            [b1 EXCEPT !.saved = @ \cup SavedFiles(f, q.list[1]),
                                       !.processed_files_count = @ + 1])
             ELSE BatchFrom(files, k + 1, b1)

\* lines 73-149
process_images_in_directory(is_dir, files) ==
  IF ~is_dir THEN NoBatch ELSE BatchFrom(files, 1, NoBatch)


----------------------------------------------------------------------------
(* Credentials *)

\* the check `all(k in creds_dict for k in [...])`
HasAllFields(creds) == RequiredFields \subseteq creds.fields

\* `credentials.expired and credentials.refresh_token`
NeedsRefresh(creds, exp) == exp /\ creds.has_rt

\* the dict written back to the session after credentials.refresh(...)
RefreshedCreds(creds, tok) ==
  [fields |-> RequiredFields, token |-> tok, has_rt |-> creds.has_rt]

----------------------------------------------------------------------------
(* The running request: c is the state a try block threads through its     *)
(* statements.  c.exc is the exception in flight; a statement is skipped   *)
(* once one is raised.                                                     *)

Ctx(s, sc, ex) ==
  [sess |-> s, scratch |-> sc, expired |-> ex, log |-> <<>>,
   exc |-> NoExc, flag |-> FALSE, result |-> {}]

Raise(c, x) == [c EXCEPT !.exc = x]

Running(c) == c.exc = NoExc

\* (variant: the refreshed credential is not written back to the session)
RefreshStepNotStored(c, new_token) ==
  IF ~Running(c) \/ ~NeedsRefresh(c.sess.google_credentials, c.expired) THEN c
  ELSE LET c1 == [c EXCEPT !.log = Append(@, Ev("refresh", new_token))]
       IN IF new_token # ""
          THEN [c1 EXCEPT !.expired = FALSE]
          ELSE Raise(c1, Exception)

\* lines 391-399 (and the same statements of the other Drive handlers)
\* new_token: the token the exchange answers with, "" when it fails
RefreshStep(c, new_token) ==
  IF ~Running(c) \/ ~NeedsRefresh(c.sess.google_credentials, c.expired) THEN c
  ELSE LET c1 == [c EXCEPT !.log = Append(@, Ev("refresh", new_token))]
       IN IF new_token # ""
          THEN [c1 EXCEPT
                  !.sess = Put(@, "google_credentials",
                               RefreshedCreds(c.sess.google_credentials, new_token)),
                  !.expired = FALSE]
          ELSE Raise(c1, Exception)

\* how the log names the answer of a remote call: "" (answered), the HTTP
\* status of an HttpError, or the kind of any other exception
ErrTag(x) == IF x.kind = "HttpError" THEN ToString(x.status) ELSE x.kind

\* one remote-store call answered with x (NoExc: answered normally)
RemoteCall(c, x) ==
  IF ~Running(c) THEN c
  ELSE [c EXCEPT !.log = Append(@, Ev("remote", ErrTag(x))), !.exc = x]

\* line 408: one next_chunk() call, answered with x; done is what an
\* answered call reports (the log names it "done")
ChunkCall(c, x, done) ==
  IF ~Running(c) THEN c
  ELSE [c EXCEPT !.log = Append(@, Ev("remote", IF x = NoExc /\ done THEN "done" ELSE ErrTag(x))),
                 !.exc = x]

\* (variant: the loop ends after its first call, whatever that reports)
ChunksFirstOnly(c, k, nchunks, fail_at, x) ==
  ChunkCall(c, IF k = fail_at THEN x ELSE NoExc, k = nchunks)

\* lines 404-411: open the scratch file, then next_chunk() until done;
\* the fail_at-th call raises x (fail_at = 0: none does)
RECURSIVE Chunks(_, _, _, _, _)
Chunks(c, k, nchunks, fail_at, x) ==
  IF ~Running(c) \/ k > nchunks THEN c
  ELSE Chunks(ChunkCall(c, IF k = fail_at THEN x ELSE NoExc, k = nchunks),
              k + 1, nchunks, fail_at, x)

DownloadStep(c, path, e) ==
  IF ~Running(c) THEN c
  ELSE IF ~e.open_ok THEN Raise(c, Exception)
  ELSE LET c1 == [c EXCEPT !.scratch = @ \cup {path},
                           !.log = Append(@, Ev("create", path))]
           c2 == Chunks(c1, 1, e.nchunks, e.fail_at, e.exc)
       IN IF Running(c2) THEN [c2 EXCEPT !.flag = TRUE] ELSE c2

\* what process_image leaves in the log: the call, the failed load (line
\* 280), and the exceptions of the detector stages it caught (lines 303-304
\* and 326-327)
ProcessLog(path, load_ok, pe) ==
  <<Ev("process", path)>>
    \o (IF ~load_ok THEN <<Ev("load_error", path)>> ELSE <<>>)
    \o (IF load_ok /\ pe.qr = "raise" THEN <<Ev("stage_error", "qr")>> ELSE <<>>)
    \o (IF load_ok /\ pe.board = "raise" THEN <<Ev("stage_error", "charuco")>> ELSE <<>>)

\* line 413: process_image(temp_image_path)
ProcessStep(c, path, e) ==
  IF ~Running(c) THEN c
  ELSE LET load_ok == e.load_ok /\ path \in c.scratch
           p == process_image(load_ok, e.pe, FALSE)
           c1 == [c EXCEPT !.log = @ \o ProcessLog(path, load_ok, e.pe)]
       IN IF p.raised THEN Raise(c1, Exception)
          ELSE [c1 EXCEPT !.result = {p.result}]

\* (variant: the file is deleted only when nothing was raised)
FinallyOnSuccess(c, path) ==
  IF c.flag /\ Running(c) /\ path \in c.scratch
  THEN [c EXCEPT !.scratch = @ \ {path}, !.log = Append(@, Ev("delete", path))]
  ELSE c

\* lines 439-445: the finally block
Finally(c, path) ==
  IF c.flag /\ path \in c.scratch
  THEN [c EXCEPT !.scratch = @ \ {path}, !.log = Append(@, Ev("delete", path))]
  ELSE c

\* lines 375-378
ScratchName(item) ==
  LET n == IF item.name # "" THEN secure_filename(item.name)
           ELSE "unnamed_drive_file_" \o item.id
  IN IF n = "" THEN "drive_file_" \o item.id ELSE n

\* (variant: has_next is reported on the last item as well)
NavPayloadNextAtEnd(index, total, filename, source, result) ==
  [current_index |-> index, total_images |-> total, filename |-> filename,
   has_next |-> index < total, has_prev |-> index > 0,
   source |-> source, result |-> result]

NavPayload(index, total, filename, source, result) ==
  [current_index |-> index, total_images |-> total, filename |-> filename,
   has_next |-> index < total - 1, has_prev |-> index > 0,
   source |-> source, result |-> result]

Out(c, r) ==
  [sess |-> c.sess, scratch |-> c.scratch, expired |-> c.expired,
   log |-> c.log, resp |-> r]

\* (variant: the cursor is stored before the index is checked)
RejectIndexAfterStore(c0, cursorKey, index, errmsg) ==
  Out([c0 EXCEPT !.sess = Put(@, cursorKey, index)],
      [NoResp EXCEPT !.status = 400, !.error = errmsg])

\* lines 368-370 (and 448-450, 470-472): the index is out of range; the
\* cursor under cursorKey is not touched
RejectIndex(c0, cursorKey, index, errmsg) ==
  Out(c0, [NoResp EXCEPT !.status = 400, !.error = errmsg])

\* (variant: the cursor is stored whether or not the image was fetched)
StoreCursorAlways(c, cursorKey, index) ==
  [c EXCEPT !.sess = Put(@, cursorKey, index)]

\* line 422: reached only when nothing was raised before it
StoreCursor(c, cursorKey, index) ==
  IF Running(c) THEN [c EXCEPT !.sess = Put(@, cursorKey, index)] ELSE c

\* lines 424-445: what the Drive branch answers and leaves behind once
\* the try block has ended in c5
DriveAnswer(c5, index, total, item, path) ==
  LET nav == NavPayload(index, total, item.name, "drive", c5.result)
      r == CASE Running(c5) ->
                  [NoResp EXCEPT !.status = 200, !.payload = {nav}]
             [] c5.exc.kind = "HttpError" ->
                  [NoResp EXCEPT !.status = c5.exc.status,
                                 !.error = "API error",
                                 !.payload = {nav},
                                 !.redirect = IF c5.exc.status = 401
                                              THEN "login_google" ELSE ""]
             [] c5.exc.kind = "ValueError" ->
                  [NoResp EXCEPT !.status = 401,
                                 !.error = "Corrupted Google session data.",
                                 !.redirect = "login_google"]
             [] OTHER ->
                  [NoResp EXCEPT !.status = 500,
                                 !.error = "An unexpected error occurred",
                                 !.payload = {nav}]
      c6 == IF c5.exc.kind = "ValueError"
               \/ (c5.exc.kind = "HttpError" /\ c5.exc.status = 401)
            THEN [c5 EXCEPT !.sess = Pop(@, "google_credentials")]
            ELSE c5
  IN Out(Finally(c6, path), r)

\* lines 365-445: the Drive branch (each step of the try block is applied
\* to the one context the step before it left)
GetDriveImage(c0, index, e) ==
  LET s == c0.sess
      drive_files == Get(s, "drive_image_files", <<>>)
      total == Len(drive_files)
  IN IF ~(0 <= index /\ index < total)
     THEN RejectIndex(c0, "current_drive_image_index", index, "Invalid Drive image index")
     ELSE
     LET item == drive_files[index + 1]
         path == ScratchName(item)
     IN IF ~Has(s, "google_credentials")
        THEN Out(c0, [NoResp EXCEPT !.status = 401, !.error = "Google session ended",
                                    !.redirect = "login_google"])
        ELSE
        LET c1 == IF HasAllFields(s.google_credentials) THEN c0 ELSE Raise(c0, ValueError)
            after2 == {RefreshStep(c, e.new_token) : c \in {c1}}
            after3 == {DownloadStep(c, path, e) : c \in after2}
            after4 == {ProcessStep(c, path, e) : c \in after3}
            after5 == {StoreCursor(c, "current_drive_image_index", index) : c \in after4}
        IN CHOOSE o \in {DriveAnswer(c5, index, total, item, path) : c5 \in after5} : TRUE

\* lines 446-483: the Server branch and the Local branch
GetStoredImage(c0, index, e, listKey, cursorKey, source, errmsg) ==
  LET s == c0.sess
      files == Get(s, listKey, <<>>)
      total == Len(files)
  IN IF ~(0 <= index /\ index < total)
     THEN RejectIndex(c0, cursorKey, index, errmsg)
     ELSE
     LET p == process_image(e.load_ok, e.pe, FALSE)
         c1 == [c0 EXCEPT !.log = @ \o ProcessLog(files[index + 1], e.load_ok, e.pe)]
     IN IF p.raised
        THEN Out(c1, [NoResp EXCEPT !.status = 500, !.exc = "ProcessingError"])
        ELSE Out([c1 EXCEPT !.sess = Put(@, cursorKey, index)],
                 [NoResp EXCEPT !.status = 200,
                    !.payload = {NavPayload(index, total, files[index + 1], source, {p.result})}])

DriveActive(s) ==
  Get(s, "selected_google_drive_folder_id", "") # "" /\ Has(s, "drive_image_files")

ServerActive(s) ==
  Get(s, "is_server_mode", FALSE) /\ Has(s, "server_image_files")

get_processed_image_data(c0, index, e) ==
  IF DriveActive(c0.sess) THEN GetDriveImage(c0, index, e)
  ELSE IF ServerActive(c0.sess)
  THEN GetStoredImage(c0, index, e, "server_image_files",
                      "current_server_image_index", "server", "Invalid Server image index")
  ELSE GetStoredImage(c0, index, e, "image_paths",
                      "current_index", "local", "Invalid local image index")


----------------------------------------------------------------------------
(* What the outside world answers to one image request: new_token (the     *)
(* refresh exchange; "" when it fails), open_ok (the scratch file can be   *)
(* opened), the fail_at-th of nchunks chunk calls raises exc, load_ok      *)
(* (cv2.imread reads the file), pe (the detectors), exists and write_ok    *)
(* (os.path.exists and cv2.imwrite, for saving).                           *)

ProcDefault == [qr |-> "nocodes", board |-> "nomarkers", enc |-> FALSE]

EnvDefault ==
  [new_token |-> "", open_ok |-> TRUE, nchunks |-> 1, fail_at |-> 0,
   exc |-> NoExc, load_ok |-> TRUE, pe |-> ProcDefault,
   exists |-> TRUE, write_ok |-> TRUE]

\* the detector outcomes the requests are tried with: nothing found, a
\* stage raising, the encoder raising
ProcSamples ==
  {ProcDefault,
   [qr |-> "drawn", board |-> "raise", enc |-> FALSE],
   [qr |-> "nocodes", board |-> "nomarkers", enc |-> TRUE]}

ProcChoices ==
  {[EnvDefault EXCEPT !.load_ok = FALSE]}
    \cup {[EnvDefault EXCEPT !.pe = pe] : pe \in ProcSamples}

\* the open fails; the first chunk call raises any error; a later one is
\* answered with a server error
DownloadFailures ==
  {[EnvDefault EXCEPT !.open_ok = FALSE]}
    \cup {[EnvDefault EXCEPT !.nchunks = MaxChunks, !.fail_at = 1, !.exc = x] :
            x \in RemoteErrors}
    \cup {[EnvDefault EXCEPT !.nchunks = MaxChunks, !.fail_at = k, !.exc = HttpError(500)] :
            k \in 2..MaxChunks}

\* a download that fails, or one of n chunks that is then processed
DownloadChoices(procs) ==
  DownloadFailures \cup procs
    \cup {[EnvDefault EXCEPT !.nchunks = n] : n \in 2..MaxChunks}

\* the answers of the token endpoint that matter in this state
RefreshAnswers(s, exp) ==
  IF Has(s, "google_credentials") /\ NeedsRefresh(s.google_credentials, exp)
  THEN Tokens \ {s.google_credentials.token}
  ELSE {}

\* envs when no exchange is due; else the exchange fails (what follows it is
\* never asked: default) or answers, and one of the answers of after follows
WithRefresh(envs, after, default, s, exp) ==
  IF RefreshAnswers(s, exp) = {} THEN envs
  ELSE {default} \cup {[e EXCEPT !.new_token = t] : e \in after, t \in RefreshAnswers(s, exp)}

\* after an exchange: the download goes through, or its first call is
\* answered 401
AfterRefresh ==
  {EnvDefault,
   [EnvDefault EXCEPT !.nchunks = MaxChunks, !.fail_at = 1, !.exc = HttpError(401)]}

----------------------------------------------------------------------------
(* navigate, lines 1093-1137 *)

\* (variant: Next wraps to the first image, Prev to the last)
ClampIndexWrap(direction, current_index, total_images) ==
  IF total_images = 0 THEN current_index
  ELSE IF direction = "next"
  THEN (current_index + 1) % total_images
  ELSE (current_index + total_images - 1) % total_images

\* (variant: the requested index is the current one in either direction)
ClampIndexStay(direction, current_index, total_images) == current_index

ClampIndex(direction, current_index, total_images) ==
  IF direction = "next"
  THEN IF current_index < total_images - 1 THEN current_index + 1 ELSE current_index
  ELSE IF current_index > 0 THEN current_index - 1 ELSE current_index

ActiveListKey(s) ==
  IF DriveActive(s) THEN "drive_image_files"
  ELSE IF ServerActive(s) THEN "server_image_files" ELSE "image_paths"

ActiveCursorKey(s) ==
  IF DriveActive(s) THEN "current_drive_image_index"
  ELSE IF ServerActive(s) THEN "current_server_image_index" ELSE "current_index"

navigate(c0, direction, e) ==
  LET s == c0.sess
      current_index == Get(s, ActiveCursorKey(s), 0)
      total_images == Len(Get(s, ActiveListKey(s), <<>>))
  IN IF direction \notin {"next", "prev"}
     THEN Out(c0, [NoResp EXCEPT !.status = 400, !.error = "Invalid navigation direction"])
     ELSE LET new_index == ClampIndex(direction, current_index, total_images)
              o == get_processed_image_data(c0, new_index, e)
          IN [o EXCEPT !.resp.requested = {new_index}]


----------------------------------------------------------------------------
(* Collection selection *)

LocalKeys == <<"image_paths", "current_index">>

\* (selected_google_drive_folder_name, a display string that is set and
\* popped next to the folder id and never read by a handler, is left out)
DriveKeys ==
  <<"selected_google_drive_folder_id", "drive_image_files", "current_drive_image_index">>

\* (variant: the Server collection is not among the keys that are cleared)
ServerKeysWithoutList == <<"is_server_mode", "current_server_image_index">>

\* (variant: a Drive selection clears only the Server cursor)
ServerKeysOnlyCursor == <<"current_server_image_index">>

ServerKeys == <<"server_image_files", "is_server_mode", "current_server_image_index">>

\* `filename.lower().endswith(('.png', '.jpg', '.jpeg', '.bmp', '.gif'))`
HasImageExt(n) == n \in {"a.jpg", "b_c.jpg", "sub_b.png", "sub/b.png", "c.png"}

\* (variant: the cursor is 0 for an empty collection too)
FirstIndexZero(list) == IF Len(list) > 0 THEN 0 ELSE 0

\* `0 if items else -1`
FirstIndex(list) == IF Len(list) > 0 THEN 0 ELSE -1

RECURSIVE SeqsUpTo(_, _)
SeqsUpTo(S, n) ==
  IF n = 0 THEN {<<>>}
  ELSE LET shorter == SeqsUpTo(S, n - 1)
       IN shorter \cup {Append(q, x) : q \in {t \in shorter : Len(t) = n - 1}, x \in S}

\* lines 1025-1043: the names of the files that were saved
RECURSIVE SavedNames(_)
SavedNames(files) ==
  IF files = <<>> THEN <<>>
  ELSE LET file == Head(files)
           filename == secure_filename(file.filename)
           rest == SavedNames(Tail(files))
       IN IF file.filename # "" /\ HasImageExt(filename) /\ file.save_ok
          THEN <<filename>> \o rest
          ELSE rest

\* lines 1001-1053
upload_files(c0, has_part, files) ==
  LET c1 == [c0 EXCEPT !.sess = PopAll(PopAll(@, DriveKeys), ServerKeys)]
  IN IF ~has_part
     THEN Out(c1, [NoResp EXCEPT !.status = 400, !.error = "No files uploaded"])
     ELSE LET image_paths == SavedNames(files)
              s2 == Put(Put(c1.sess, "image_paths", image_paths),
                        "current_index", FirstIndex(image_paths))
          IN Out([c1 EXCEPT !.sess = s2],
                 [NoResp EXCEPT !.status = 200, !.stored = TRUE])

\* the files below SERVER_IMAGES_FOLDER, by their relative path
ServerDirFiles == {"a.jpg", "sub/b.png", "notes.txt"}

\* Python's string order on these paths
PathRank(n) ==
  CASE n = "a.jpg" -> 1 [] n = "notes.txt" -> 2 [] n = "sub/b.png" -> 3 [] OTHER -> 4

\* list.sort(): insertion of each element at its place
RECURSIVE InsertSorted(_, _)
InsertSorted(x, sorted) ==
  IF sorted = <<>> THEN <<x>>
  ELSE IF PathRank(x) <= PathRank(Head(sorted)) THEN <<x>> \o sorted
  ELSE <<Head(sorted)>> \o InsertSorted(x, Tail(sorted))

RECURSIVE SortPaths(_)
SortPaths(list) ==
  IF list = <<>> THEN <<>> ELSE InsertSorted(Head(list), SortPaths(Tail(list)))

\* what os.walk can report: nothing, or the files of the directory in any
\* order
WalkOrders ==
  {q \in SeqsUpTo(ServerDirFiles, Cardinality(ServerDirFiles)) :
     /\ Len(q) \in {0, Cardinality(ServerDirFiles)}
     /\ \A i, j \in 1..Len(q) : i # j => q[i] # q[j]}

\* lines 945-984
select_server_images(c0, dir_ok, walk_ok, walk) ==
  LET c1 == [c0 EXCEPT !.sess = PopAll(PopAll(@, LocalKeys), DriveKeys)]
  IN IF ~dir_ok
     THEN Out(c1, [NoResp EXCEPT !.status = 500, !.error = "Server image directory not found"])
     ELSE IF ~walk_ok
     THEN Out(c1, [NoResp EXCEPT !.status = 500, !.error = "Failed to scan server image directory"])
     ELSE LET server_image_files == SortPaths(SelectSeq(walk, HasImageExt))
              s2 == Put(Put(Put(c1.sess, "server_image_files", server_image_files),
                            "is_server_mode", TRUE),
                        "current_server_image_index", FirstIndex(server_image_files))
          IN Out([c1 EXCEPT !.sess = s2], [NoResp EXCEPT !.status = 200, !.stored = TRUE])


----------------------------------------------------------------------------
(* Drive handlers.  d is what the outside world answers: new_token (the    *)
(* refresh exchange), get_exc and list_exc (files().get / files().list,    *)
(* NoExc when answered), n (images the listing holds), content_json and    *)
(* perm_denied (the body of an HttpError, as drive_folders parses it).     *)

DriveEnvDefault ==
  [new_token |-> "", get_exc |-> NoExc, list_exc |-> NoExc, n |-> 0,
   content_json |-> TRUE, perm_denied |-> FALSE]

ListingAnswers ==
  {[DriveEnvDefault EXCEPT !.n = n] : n \in {0, 1, MaxItems}}
    \cup {[DriveEnvDefault EXCEPT !.list_exc = x] : x \in RemoteErrors}

\* an HttpError whose body is no JSON, or names PERMISSION_DENIED
ErrorBodies ==
  {[DriveEnvDefault EXCEPT !.list_exc = HttpError(st), !.content_json = b.j, !.perm_denied = b.pd] :
     st \in {401, 403}, b \in {x \in [j : BOOLEAN, pd : BOOLEAN] : ~x.j \/ x.pd}}

\* the folder listing is answered (what it holds is not kept in the session)
\* or raises
FolderAnswers ==
  {DriveEnvDefault}
    \cup {[DriveEnvDefault EXCEPT !.list_exc = x] : x \in RemoteErrors}
    \cup ErrorBodies

\* files().get raises: an auth error or another one
GetAnswers == {[DriveEnvDefault EXCEPT !.get_exc = HttpError(st)] : st \in {403, 404}}

\* after an exchange: the listing is answered, or answered 401
DriveAfterRefresh ==
  {[DriveEnvDefault EXCEPT !.n = MaxItems],
   [DriveEnvDefault EXCEPT !.list_exc = HttpError(401)]}

Redirect(to) == [NoResp EXCEPT !.status = 302, !.redirect = to]

AuthStatus(st) == st = 401 \/ st = 403

\* lines 613-682
drive_folders(c0, d) ==
  LET s == c0.sess
  IN IF ~Has(s, "google_credentials") THEN Out(c0, Redirect("login_google"))
     ELSE IF ~HasAllFields(s.google_credentials)
     THEN Out([c0 EXCEPT !.sess = Pop(@, "google_credentials")],
              [Redirect("login_google") EXCEPT !.error = "session data is corrupted"])
     ELSE
     LET c1 == RefreshStep(c0, d.new_token)
     IN IF ~Running(c1)
        THEN Out([c1 EXCEPT !.sess = Pop(Pop(@, "google_credentials"), "state")],
                 [Redirect("login_google") EXCEPT !.error = "could not be refreshed"])
        ELSE
        LET c2 == RemoteCall(c1, d.list_exc)
        IN IF Running(c2) THEN Out(c2, [NoResp EXCEPT !.status = 200])
           ELSE IF c2.exc.kind = "HttpError" /\ d.content_json /\ ~d.perm_denied
                   /\ AuthStatus(c2.exc.status)
           THEN Out([c2 EXCEPT !.sess = Pop(Pop(@, "google_credentials"), "state")],
                    [Redirect("login_google") EXCEPT !.error = "session is invalid"])
           ELSE Out(c2, [NoResp EXCEPT !.status = 200, !.error = "API error"])

\* (variant: the cursor of the emptied collection is left at 0)
ClearDriveImagesAtZero(s) ==
  Put(Put(s, "drive_image_files", <<>>), "current_drive_image_index", 0)

ClearDriveImages(s) ==
  Put(Put(s, "drive_image_files", <<>>), "current_drive_image_index", -1)

StoreDriveImages(s, items) ==
  Put(Put(s, "drive_image_files", items), "current_drive_image_index", FirstIndex(items))

\* lines 701-770
drive_select_folder(c0, folder_id, d) ==
  IF ~Has(c0.sess, "google_credentials")
  THEN Out(c0, [Redirect("login_google") EXCEPT !.error = "Please login with Google first."])
  ELSE
  LET s1 == Put(c0.sess, "selected_google_drive_folder_id", folder_id)
      s2 == PopAll(PopAll(s1, LocalKeys), ServerKeys)
      c1 == [c0 EXCEPT !.sess = s2]
  IN IF ~HasAllFields(s2.google_credentials)
     THEN Out([c1 EXCEPT !.sess = Pop(@, "google_credentials")],
              [Redirect("login_google") EXCEPT !.error = "session data is corrupted"])
     ELSE
     LET c2 == RefreshStep(c1, d.new_token)
         c3 == RemoteCall(c2, d.list_exc)
     IN IF Running(c3)
        THEN Out([c3 EXCEPT !.sess = StoreDriveImages(@, DriveListing(folder_id, d.n))],
                 [Redirect("index") EXCEPT !.stored = TRUE])
        ELSE IF c3.exc.kind = "HttpError" /\ AuthStatus(c3.exc.status)
        THEN Out([c3 EXCEPT !.sess = Pop(@, "google_credentials")],
                 [Redirect("login_google") EXCEPT !.error = "Error accessing folder"])
        ELSE Out([c3 EXCEPT !.sess = ClearDriveImages(@)],
                 [Redirect("index") EXCEPT !.error = "Error accessing folder", !.stored = TRUE])

\* the links a user can paste, and extract_folder_id_from_url on them
\* (lines 787-799): "" when the pattern does not match
DriveLinks ==
  {"https://drive.google.com/drive/folders/F1", "https://drive.google.com/open?id=F1",
   "https://example.com/folders/short"}

extract_folder_id_from_url(url) ==
  CASE url = "https://drive.google.com/drive/folders/F1" -> "F1"
    [] url = "https://drive.google.com/open?id=F1" -> "F1"
    [] url = "https://drive.google.com/drive/folders/F2" -> "F2"
    [] OTHER -> ""

\* lines 815-887; has_link: the JSON body holds 'drive_link'
process_drive_link(c0, has_link, drive_link, d) ==
  IF ~Has(c0.sess, "google_credentials")
  THEN Out(c0, [NoResp EXCEPT !.status = 401, !.error = "Not logged into Google.",
                              !.redirect = "login_google"])
  ELSE IF ~has_link
  THEN Out(c0, [NoResp EXCEPT !.status = 400, !.error = "Drive link not provided."])
  ELSE
  LET folder_id == extract_folder_id_from_url(drive_link)
  IN IF folder_id = ""
     THEN Out(c0, [NoResp EXCEPT !.status = 400, !.error = "Invalid Google Drive folder link format."])
     ELSE
     LET c1 == [c0 EXCEPT !.sess = PopAll(PopAll(@, LocalKeys), ServerKeys)]
     IN IF ~HasAllFields(c1.sess.google_credentials)
        THEN Out([c1 EXCEPT !.sess = Pop(@, "google_credentials")],
                 [NoResp EXCEPT !.status = 401, !.error = "Google session data corrupted.",
                                !.redirect = "login_google"])
        ELSE
        LET c2 == RefreshStep(c1, d.new_token)
            c3 == RemoteCall(c2, d.get_exc)
            c4 == IF Running(c3)
                  THEN [c3 EXCEPT !.sess =
                          Put(@, "selected_google_drive_folder_id", folder_id)]
                  ELSE c3
            c5 == RemoteCall(c4, d.list_exc)
        IN IF Running(c5)
           THEN Out([c5 EXCEPT !.sess = StoreDriveImages(@, DriveListing(folder_id, d.n))],
                    [NoResp EXCEPT !.status = 200, !.stored = TRUE])
           ELSE IF c5.exc.kind = "HttpError"
           THEN Out(IF AuthStatus(c5.exc.status)
                    THEN [c5 EXCEPT !.sess = Pop(@, "google_credentials")] ELSE c5,
                    [NoResp EXCEPT !.status = c5.exc.status,
                                   !.error = "Error accessing Google Drive",
                                   !.redirect = IF AuthStatus(c5.exc.status)
                                                THEN "login_google" ELSE ""])
           ELSE Out(c5, [NoResp EXCEPT !.status = 500, !.error = "An unexpected error occurred."])


----------------------------------------------------------------------------
(* save_processed_image, lines 1150-1262 *)

\* Credentials.refresh() without token_uri, client_id, client_secret or a
\* refresh token raises before any exchange
RefreshPossible(creds) ==
  {"refresh_token", "token_uri", "client_id", "client_secret"} \subseteq creds.fields

SaveDriveImage(c0, item, e) ==
  LET s == c0.sess
      creds == s.google_credentials
      path == secure_filename(item.name)
  IN IF ~Has(s, "google_credentials") \/ creds.fields = {}
     THEN Out(c0, [NoResp EXCEPT !.status = 401, !.error = "Google session ended.",
                                 !.redirect = "login_google"])
     ELSE
     LET \* Credentials(**creds_dict) needs the 'token' argument
         c1 == IF "token" \in creds.fields THEN c0 ELSE Raise(c0, Exception)
         c2 == RefreshStep(c1, IF RefreshPossible(creds) THEN e.new_token ELSE "")
         \* temp_image_path is set once the refresh is through; the scratch
         \* folder itself (an empty name) can neither be opened nor removed
         path_set == Running(c2)
         c3 == DownloadStep(c2, path, [e EXCEPT !.open_ok = e.open_ok /\ path # ""])
         p == process_image(e.load_ok, e.pe, TRUE)
         c4 == IF Running(c3)
               THEN [c3 EXCEPT !.log = Append(@, Ev("process", path))]
               ELSE c3
         r == IF ~Running(c4)
              THEN [NoResp EXCEPT !.status = 500,
                      !.error = IF c4.exc.kind = "HttpError"
                                THEN "Google Drive API error while preparing to save."
                                ELSE "An unexpected error occurred."]
              ELSE IF p.image = {}
              THEN [NoResp EXCEPT !.status = 500, !.error = "Failed to process image for saving."]
              ELSE IF ~e.write_ok
              THEN [NoResp EXCEPT !.status = 500, !.error = "Failed to write image file to disk."]
              ELSE [NoResp EXCEPT !.status = 200]
         \* lines 1259-1262: the finally block
         c5 == IF path_set /\ path # "" /\ path \in c4.scratch
               THEN [c4 EXCEPT !.scratch = @ \ {path},
                               !.log = Append(@, Ev("delete", path))]
               ELSE c4
     IN IF path_set /\ path = ""
        THEN Out(c5, [NoResp EXCEPT !.status = 500, !.exc = "OSError"])
        ELSE Out(c5, r)

SaveStoredImage(c0, e) ==
  LET p == process_image(e.load_ok, e.pe, TRUE)
  IN IF ~e.exists
     THEN Out(c0, [NoResp EXCEPT !.status = 404, !.error = "Image file not found."])
     ELSE LET c1 == [c0 EXCEPT !.log = Append(@, Ev("process", ""))]
          IN IF p.image = {}
             THEN Out(c1, [NoResp EXCEPT !.status = 500, !.error = "Failed to process image for saving."])
             ELSE IF ~e.write_ok
             THEN Out(c1, [NoResp EXCEPT !.status = 500, !.error = "Failed to write image file to disk."])
             ELSE Out(c1, [NoResp EXCEPT !.status = 200])

\* Python's list[i]: a negative i counts from the end
PyIndex(list, i) == IF i < 0 THEN list[Len(list) + i + 1] ELSE list[i + 1]

save_processed_image(c0, e) ==
  LET s == c0.sess
      source == IF DriveActive(s) THEN "drive"
                ELSE IF ServerActive(s) THEN "server"
                ELSE IF Has(s, "image_paths") THEN "local" ELSE ""
      index == IF source = "" THEN -1 ELSE Get(s, ActiveCursorKey(s), -1)
      list == IF source = "" THEN <<>> ELSE Get(s, ActiveListKey(s), <<>>)
  IN IF index = -1
     THEN Out(c0, [NoResp EXCEPT !.status = 400, !.error = "No active image to save."])
     ELSE IF ~(-Len(list) <= index /\ index < Len(list))
     THEN Out(c0, [NoResp EXCEPT !.status = 500, !.exc = "IndexError"])
     ELSE IF source = "drive" THEN SaveDriveImage(c0, PyIndex(list, index), e)
     ELSE SaveStoredImage(c0, e)

----------------------------------------------------------------------------
(* index, login_google, authorize_google, logout_google *)

\* lines 498-538
index(c0) ==
  LET s == c0.sess
      server_images_count == Len(Get(s, "server_image_files", <<>>))
      drive_images_count == Len(Get(s, "drive_image_files", <<>>))
      is_server_mode == Get(s, "is_server_mode", FALSE)
      is_drive_mode == Get(s, "selected_google_drive_folder_id", "") # "" /\ ~is_server_mode
      csi == Get(s, "current_server_image_index", -1)
      cdi == Get(s, "current_drive_image_index", -1)
      s2 == IF is_server_mode
            THEN IF server_images_count = 0 \/ csi = -1 THEN s
                 ELSE IF csi >= server_images_count
                 THEN Put(s, "current_server_image_index", 0)
                 ELSE s
            ELSE IF is_drive_mode
            THEN IF drive_images_count = 0 \/ cdi = -1 THEN s
                 ELSE IF cdi >= drive_images_count
                 THEN Put(s, "current_drive_image_index", 0)
                 ELSE s
            ELSE PopAll(s, <<"is_server_mode", "server_image_files",
                             "current_server_image_index",
                             "selected_google_drive_folder_id",
                             "drive_image_files", "current_drive_image_index">>)
  IN Out([c0 EXCEPT !.sess = s2], [NoResp EXCEPT !.status = 200])

\* the value flow.authorization_url() draws for the state parameter
OAuthStates == {"s1"}

\* lines 553-571
login_google(c0, flow_ok, state) ==
  IF flow_ok
  THEN Out([c0 EXCEPT !.sess = Put(@, "state", state)], Redirect("authorization_url"))
  ELSE Out(c0, [NoResp EXCEPT !.status = 500, !.error = "An error occurred during Google login."])

\* (variant: any stored state admits the callback)
StateRejectedWhenMissing(state, request_state) == state = ""

\* line 905: `not state or state != request.args.get('state')`
StateRejected(state, request_state) == state = "" \/ state # request_state

\* lines 904-931; token: the access token the exchange answers with ("" when
\* it fails), has_rt: the answer holds a refresh token
authorize_google(c0, request_state, token, has_rt) ==
  LET state == Get(c0.sess, "state", "")
  IN IF StateRejected(state, request_state)
     THEN Out(c0, [NoResp EXCEPT !.status = 400, !.error = "State mismatch"])
     ELSE IF token = ""
     THEN Out([c0 EXCEPT !.log = Append(@, Ev("token_exchange", ""))],
              [NoResp EXCEPT !.status = 500, !.error = "Could not fetch Google authentication token."])
     ELSE Out([c0 EXCEPT !.log = Append(@, Ev("token_exchange", token)),
                         !.sess = Put(@, "google_credentials",
                                      [fields |-> RequiredFields, token |-> token,
                                       has_rt |-> has_rt]),
                         !.expired = FALSE],
              Redirect("index"))

\* (variant: the Drive list and cursor stay in the session)
logout_googleKeepingList(c0) ==
  Out([c0 EXCEPT !.sess =
         PopAll(@, <<"google_credentials", "state",
                     "selected_google_drive_folder_id",
                     "server_image_files", "is_server_mode",
                     "current_server_image_index">>)],
      Redirect("index"))

\* lines 585-596
logout_google(c0) ==
  Out([c0 EXCEPT !.sess =
         PopAll(@, <<"google_credentials", "state",
                     "selected_google_drive_folder_id",
                     "drive_image_files", "current_drive_image_index",
                     "server_image_files", "is_server_mode",
                     "current_server_image_index">>)],
      Redirect("index"))


----------------------------------------------------------------------------
(* The state machine *)

\* credentials a session cookie can already hold when the first request
\* arrives (written by an earlier deployment, or by the test fixtures)
StoredCredentials ==
  {[fields |-> RequiredFields, token |-> "t0", has_rt |-> TRUE],
   [fields |-> RequiredFields, token |-> "t0", has_rt |-> FALSE],
   [fields |-> RequiredFields \ {"client_secret"}, token |-> "t0", has_rt |-> TRUE]}

\* a cookie of that kind that holds a selected Drive folder as well
StoredDriveSession(creds) ==
  StoreDriveImages(Put(Put(EmptySession, "google_credentials", creds),
                       "selected_google_drive_folder_id", "F1"),
                   DriveListing("F1", MaxItems))

\* no function is being applied on its own, no sessions run side by side
NoCall == [fn |-> "", args |-> {}, ret |-> {}]

NoDisk == {}

NoReq == {}

Init ==
  /\ call = NoCall
  /\ disk = NoDisk
  /\ req = NoReq
  /\ \/ session = EmptySession /\ expired = FALSE
     \/ \E creds \in StoredCredentials :
          /\ \/ session = Put(EmptySession, "google_credentials", creds)
             \/ ~HasAllFields(creds) /\ session = StoredDriveSession(creds)
          /\ expired \in {FALSE, creds.has_rt}
  /\ scratch = {}
  /\ resp = NoResp
  /\ log = <<>>

Current == Ctx(session, scratch, expired)

\* the request is answered: o is what the handler left behind
Answer(op, arg, o) ==
  /\ session' = o.sess
  /\ scratch' = o.scratch
  /\ expired' = (o.expired /\ Has(o.sess, "google_credentials")
                            /\ o.sess.google_credentials.has_rt)
  /\ resp' = [o.resp EXCEPT !.op = op, !.arg = arg]
  /\ log' = o.log
  /\ UNCHANGED <<call, disk, req>>

\* the answers that matter to a request for image i in this state: none
\* when i is out of range or the credentials are not usable
ImageEnvs(i) ==
  IF ~(0 <= i /\ i < Len(Get(session, ActiveListKey(session), <<>>))) THEN {EnvDefault}
  ELSE IF ~DriveActive(session) THEN ProcChoices
  ELSE IF ~Has(session, "google_credentials") \/ ~HasAllFields(session.google_credentials)
  THEN {EnvDefault}
  ELSE WithRefresh(DownloadChoices(ProcChoices), AfterRefresh, EnvDefault, session, expired)

\* lines 1071-1075
ProcessImageRoute ==
  \E i \in 0..MaxItems : \E e \in ImageEnvs(i) :
    LET o == get_processed_image_data(Current, i, e)
    IN Answer("process", "", [o EXCEPT !.resp.requested = {i}])

Navigate ==
  \E direction \in {"next", "prev", "up"} :
    \E e \in ImageEnvs(ClampIndex(direction,
                                  Get(session, ActiveCursorKey(session), 0),
                                  Len(Get(session, ActiveListKey(session), <<>>)))) :
      Answer("navigate", direction, navigate(Current, direction, e))

\* an upload of n files: good images, but for at most one that is no image
\* or that the server fails to save
UploadsOf(n) ==
  LET good == [k \in 1..n |-> [filename |-> NameAt(k), save_ok |-> TRUE]]
  IN {good}
       \cup {[good EXCEPT ![k].filename = "x.txt"] : k \in 1..n}
       \cup {[good EXCEPT ![k].save_ok = FALSE] : k \in 1..n}

Upload ==
  \/ Answer("upload", "", upload_files(Current, FALSE, <<>>))
  \/ \E n \in {0, 1, MaxItems} : \E files \in UploadsOf(n) :
       Answer("upload", "", upload_files(Current, TRUE, files))

SelectServerImages ==
  \/ \E dir_ok \in BOOLEAN :
       Answer("select_server_images", "", select_server_images(Current, dir_ok, FALSE, <<>>))
  \/ \E walk \in WalkOrders :
       Answer("select_server_images", "", select_server_images(Current, TRUE, TRUE, walk))

ListDriveFolders ==
  \E d \in WithRefresh(FolderAnswers, DriveAfterRefresh, DriveEnvDefault, session, expired) :
    Answer("drive_folders", "", drive_folders(Current, d))

DriveSelectFolder ==
  \E folder_id \in DriveFolders, d \in WithRefresh(ListingAnswers, DriveAfterRefresh, DriveEnvDefault, session, expired) :
    Answer("drive_select_folder", folder_id, drive_select_folder(Current, folder_id, d))

\* the answers that matter to a pasted link: none when no folder id is found
LinkEnvs(drive_link) ==
  IF extract_folder_id_from_url(drive_link) = "" THEN {DriveEnvDefault}
  ELSE WithRefresh(ListingAnswers \cup GetAnswers, DriveAfterRefresh, DriveEnvDefault, session, expired)

ProcessDriveLink ==
  \/ Answer("process_drive_link", "", process_drive_link(Current, FALSE, "", DriveEnvDefault))
  \/ \E drive_link \in DriveLinks :
       \E d \in LinkEnvs(drive_link) :
         Answer("process_drive_link", extract_folder_id_from_url(drive_link),
                process_drive_link(Current, TRUE, drive_link, d))

SaveEnvs ==
  LET files == {[EnvDefault EXCEPT !.write_ok = w, !.load_ok = l] :
                  w \in BOOLEAN, l \in BOOLEAN}
  IN IF DriveActive(session)
     THEN WithRefresh(DownloadChoices(files), AfterRefresh, EnvDefault, session, expired)
     ELSE files \cup {[EnvDefault EXCEPT !.exists = FALSE]}

SaveProcessedImage ==
  \E e \in SaveEnvs : Answer("save_processed_image", "", save_processed_image(Current, e))

Index == Answer("index", "", index(Current))

LoginGoogle ==
  \E flow_ok \in BOOLEAN, state \in OAuthStates :
    Answer("login_google", "", login_google(Current, flow_ok, state))

AuthorizeGoogle ==
  \/ Answer("authorize_google", "forged", authorize_google(Current, "forged", "", FALSE))
  \/ \E request_state \in OAuthStates :
       \/ Answer("authorize_google", request_state,
                 authorize_google(Current, request_state, "", FALSE))
       \/ \E has_rt \in BOOLEAN, token \in Tokens \ {session.google_credentials.token} :
            Answer("authorize_google", request_state,
                   authorize_google(Current, request_state, token, has_rt))

LogoutGoogle == Answer("logout_google", "", logout_google(Current))

\* time passes: the stored access token reaches its expiry (the expiry is
\* only ever read next to the refresh token, in NeedsRefresh)
TokenExpires ==
  /\ Has(session, "google_credentials")
  /\ session.google_credentials.has_rt
  /\ ~expired
  /\ expired' = TRUE
  /\ resp' = [NoResp EXCEPT !.op = "token_expires"]
  /\ log' = <<>>
  /\ UNCHANGED <<session, scratch, call, disk, req>>

Next ==
  \/ ProcessImageRoute
  \/ Navigate
  \/ Upload
  \/ SelectServerImages
  \/ ListDriveFolders
  \/ DriveSelectFolder
  \/ ProcessDriveLink
  \/ SaveProcessedImage
  \/ Index
  \/ LoginGoogle
  \/ AuthorizeGoogle
  \/ LogoutGoogle
  \/ TokenExpires

Spec == Init /\ [][Next]_vars

----------------------------------------------------------------------------
(* Properties *)

ImageOps == {"process", "navigate"}

\* the operations of claim C5, and with save_processed_image all that use the
\* stored credential against Drive
RefreshOps ==
  ImageOps \cup {"drive_folders", "drive_select_folder", "process_drive_link"}

RemoteOps == RefreshOps \cup {"save_processed_image"}

Creds == session.google_credentials

\* the request that was answered last touched the token endpoint, Drive or
\* the scratch folder
RemoteActivity(l) == \E i \in 1..Len(l) : l[i].ev \in {"refresh", "remote", "create"}

\* C1: in Drive mode, whatever way get_processed_image_data returned, the
\* scratch file this call created is gone.
C1_ScratchFileReleased ==
  (resp.op \in ImageOps /\ DriveActive(session))
    => \A i \in PosOf(log, "create") : log[i].path \notin scratch

\* C2: in Drive mode a get_item whose download completed (process_image was
\* reached) created one scratch file and then deleted that file, once - also
\* when the board detection raised.
C2_OneCreateOneDelete ==
  (resp.op \in ImageOps /\ DriveActive(session) /\ CountEv(log, "process") > 0)
    => /\ CountEv(log, "create") = 1
       /\ CountEv(log, "delete") = 1
       /\ \A i \in PosOf(log, "create"), j \in PosOf(log, "delete") :
            /\ i < j
            /\ log[i].path = log[j].path
            /\ log[j].path \notin scratch
            /\ \A k \in PosOf(log, "process") : i < k /\ k < j

\* the case of C2: three items, index 1, the download completed and the
\* ChArUco stage raised
C2_Witness ==
  /\ resp.op = "process"
  /\ DriveActive(session)
  /\ Len(session.drive_image_files) = 3
  /\ resp.requested = {1}
  /\ \E k \in 1..Len(log) : log[k] = Ev("stage_error", "charuco")
  /\ CountEv(log, "create") = 1
  /\ CountEv(log, "delete") = 1
  /\ scratch = {}

\* C3: when a remote call of the operation answered 401 or 403, the stored
\* credential is gone when the operation returns.
C3_AuthFailureRemovesCredential ==
  (resp.op \in RemoteOps
     /\ \E i \in PosOf(log, "remote") : log[i].path \in {"401", "403"})
    => ~Has(session, "google_credentials")

\* a remote operation starts with a credential that is expired and holds a
\* refresh token, and gets as far as the token endpoint or Drive
C4_Case ==
  /\ resp'.op \in RemoteOps
  /\ Has(session, "google_credentials")
  /\ NeedsRefresh(Creds, expired)
  /\ RemoteActivity(log')

\* the first thing the operation did outside was the refresh exchange
C4_RefreshedFirst ==
  /\ log'[1].ev = "refresh"
  /\ \A i \in PosOf(log', "remote") \cup PosOf(log', "create") : i > 1

C5_RefreshFailureForcesLogin ==
  (resp.op \in RefreshOps /\ \E i \in PosOf(log, "refresh") : log[i].path = "")
    => /\ ~Has(session, "google_credentials")
       /\ resp.redirect = "login_google"

\* the request never came to use the credential: it was turned away for its
\* arguments, or the active mode is not Drive
C6_TurnedAway ==
  \/ resp'.status = 400
  \/ resp'.op \in ImageOps \cup {"save_processed_image"} /\ ~DriveActive(session)

\* C6: a remote operation that finds a stored credential lacking one of the
\* six fields removes it, and neither refreshes, nor calls Drive, nor
\* creates a scratch file.
C6_FieldsCheckedFirst ==
  [][(resp'.op \in RemoteOps
        /\ Has(session, "google_credentials")
        /\ ~HasAllFields(Creds))
       => /\ ~RemoteActivity(log')
          /\ (~C6_TurnedAway => ~Has(session', "google_credentials"))]_vars

ActiveList == Get(session, ActiveListKey(session), <<>>)

C8_NavigateClamps ==
  [][resp'.op = "navigate" =>
       LET i == Get(session, ActiveCursorKey(session), 0)
           total == Len(ActiveList)
       IN CASE resp'.arg = "next" ->
                 resp'.requested = {IF i < total - 1 THEN i + 1 ELSE i}
            [] resp'.arg = "prev" ->
                 resp'.requested = {IF i > 0 THEN i - 1 ELSE i}
            [] OTHER ->
                 /\ resp'.status = 400
                 /\ resp'.error # ""
                 /\ resp'.requested = {}
                 /\ resp'.payload = {}
                 /\ log' = <<>>
                 /\ session' = session]_vars

\* Next was asked at the last image of the Server collection: the same image
\* is requested again, not the first
C8_Witness ==
  /\ resp.op = "navigate"
  /\ resp.arg = "next"
  /\ ServerActive(session)
  /\ Len(session.server_image_files) >= 2
  /\ resp.requested = {Len(session.server_image_files) - 1}
  /\ \E p \in resp.payload : ~p.has_next /\ p.has_prev

CollectionKeys == {"image_paths", "drive_image_files", "server_image_files"}

AllAbsent(ks) == \A i \in 1..Len(ks) : ~Has(session, ks[i])

\* a Drive selection that was not turned away at the door (no credential, no
\* link, no folder id in the link)
DriveSelectionMade ==
  /\ resp.op \in {"drive_select_folder", "process_drive_link"}
  /\ resp.error \notin {"Please login with Google first.", "Not logged into Google.",
                        "Drive link not provided.",
                        "Invalid Google Drive folder link format."}

\* C9: after a selection for one mode the other modes' collections and
\* cursors are absent; at most one mode holds a collection.
C9_OneModeHoldsCollection ==
  /\ resp.op = "upload" => AllAbsent(DriveKeys) /\ AllAbsent(ServerKeys)
  /\ resp.op = "select_server_images" => AllAbsent(LocalKeys) /\ AllAbsent(DriveKeys)
  /\ DriveSelectionMade => AllAbsent(LocalKeys) /\ AllAbsent(ServerKeys)
  /\ Cardinality(CollectionKeys \cap session.keys) <= 1

\* the Server collection was selected in a session that had a Drive
\* collection before (a download of it left a file in the scratch folder)
C9_Witness ==
  /\ resp.op = "select_server_images"
  /\ resp.stored
  /\ scratch # {}
  /\ Has(session, "server_image_files")
  /\ ~Has(session, "drive_image_files")
  /\ ~Has(session, "selected_google_drive_folder_id")

\* C10: after a selection stored a collection, that mode's cursor is 0 if
\* the collection holds an image and -1 if it is empty.
C10_CursorAfterSelection ==
  resp.stored =>
    LET listKey == CASE resp.op = "upload" -> "image_paths"
                     [] resp.op = "select_server_images" -> "server_image_files"
                     [] OTHER -> "drive_image_files"
        cursorKey == CASE resp.op = "upload" -> "current_index"
                       [] resp.op = "select_server_images" -> "current_server_image_index"
                       [] OTHER -> "current_drive_image_index"
    IN /\ Has(session, listKey)
       /\ Has(session, cursorKey)
       /\ session[listKey] # <<>> => session[cursorKey] = 0
       /\ session[listKey] = <<>> => session[cursorKey] = -1

\* an upload in which no file was an image stored the empty collection
C10_Witness ==
  /\ resp.op = "upload"
  /\ resp.stored
  /\ Has(session, "image_paths")
  /\ session.image_paths = <<>>
  /\ session.current_index = -1

\* C11: a get_item or navigate in Drive mode that does not end in success
\* (the store answered 404 or another error, the download or the refresh
\* raised) leaves the Drive collection, the selected folder and the stored
\* cursor as they were.
C11_FailedFetchKeepsNavigation ==
  [][(resp'.op \in ImageOps /\ DriveActive(session) /\ resp'.status # 200)
       => /\ DriveActive(session')
          /\ session'.drive_image_files = session.drive_image_files
          /\ session'.selected_google_drive_folder_id = session.selected_google_drive_folder_id
          /\ Has(session', "current_drive_image_index") = Has(session, "current_drive_image_index")
          /\ session'.current_drive_image_index = session.current_drive_image_index]_vars

\* Next was asked at image 0 of 3, the download of image 1 was answered 404:
\* the cursor is still 0
C11_Witness ==
  /\ resp.op = "navigate"
  /\ DriveActive(session)
  /\ resp.status = 404
  /\ resp.requested = {1}
  /\ \E i \in PosOf(log, "remote") : log[i].path = "404"
  /\ Len(session.drive_image_files) = 3
  /\ session.current_drive_image_index = 0

\* C12: a get_item for an index outside 0..total-1 is answered 400 by the
\* bounds check alone: nothing is read, refreshed, downloaded or created, and
\* the session (the cursor with it) is as before.
C12_OutOfRangeRejectedFirst ==
  [][(resp'.op \in ImageOps
        /\ \E i \in resp'.requested : ~(0 <= i /\ i < Len(ActiveList)))
       => /\ resp'.status = 400
          /\ resp'.error # ""
          /\ resp'.payload = {}
          /\ log' = <<>>
          /\ session' = session
          /\ scratch' = scratch
          /\ expired' = expired]_vars

\* image 3 of a Drive collection of 3 was asked for by a session that holds
\* an expired credential: 400, and nothing was refreshed or downloaded
C12_Witness ==
  /\ resp.op = "process"
  /\ resp.status = 400
  /\ DriveActive(session)
  /\ Len(session.drive_image_files) = 3
  /\ resp.requested = {3}
  /\ Has(session, "google_credentials")
  /\ expired
  /\ log = <<>>

----------------------------------------------------------------------------
(* C13. In local or shared mode, a get_item for an in-range index whose    *)
(* file cannot be read as an image is answered as an error: the status is  *)
(* not 200, or the answer carries an error text.                           *)

UnreadableFile == \E i \in 1..Len(log) : log[i].ev = "load_error"

C13_UnreadableFileIsError ==
  (resp.op \in ImageOps /\ ~DriveActive(session) /\ UnreadableFile)
    => (resp.status # 200 \/ resp.error # "" \/ resp.exc # "")
----------------------------------------------------------------------------
(* C14. Every get_item/navigate answer caused by an auth error - the store *)
(* answered 401 or 403, or the stored credential lacks a required field -  *)
(* carries the redirect to the login route.                                *)

\* the store answered the request with 401 or 403
StoreRefused == \E i \in 1..Len(log) : log[i].ev = "remote" /\ log[i].path \in {"401", "403"}

\* the answer of the `except ValueError` branch (lines 432-435)
CredentialRejected == resp.error = "Corrupted Google session data."

C14_AuthErrorCarriesLogin ==
  (resp.op \in ImageOps /\ (StoreRefused \/ CredentialRejected))
    => resp.redirect = "login_google"
----------------------------------------------------------------------------
(* C16. After logout_google the session holds no credential, no OAuth      *)
(* state, no selected Drive folder, no Drive image list and no Drive       *)
(* cursor.                                                                 *)

GoogleKeys ==
  {"google_credentials", "state", "selected_google_drive_folder_id",
   "drive_image_files", "current_drive_image_index"}

C16_LogoutClearsGoogleState ==
  resp.op = "logout_google" => session.keys \cap GoogleKeys = {}

\* a logout answered, in a session that keeps its uploaded pictures
C16_Witness ==
  /\ resp.op = "logout_google"
  /\ resp.status = 302
  /\ resp.redirect = "index"
  /\ Has(session, "image_paths")
  /\ Len(session.image_paths) = MaxItems
  /\ session.keys \cap GoogleKeys = {}
----------------------------------------------------------------------------
(* C17. authorize_google stores a credential only when the session holds a *)
(* non-empty OAuth state equal to the state parameter of the callback; on  *)
(* a missing or different state it answers 400, exchanges no token and     *)
(* leaves the stored credential as it was.                                 *)

StateMatches(s, request_state) ==
  Has(s, "state") /\ s.state # "" /\ s.state = request_state

C17_StateGuardsCredential ==
  [][resp'.op = "authorize_google"
       => /\ (~StateMatches(session, resp'.arg)
               => /\ resp'.status = 400
                  /\ CountEv(log', "token_exchange") = 0
                  /\ Has(session', "google_credentials") = Has(session, "google_credentials")
                  /\ session'.google_credentials = session.google_credentials)
          /\ (session'.google_credentials # session.google_credentials
               => StateMatches(session, resp'.arg))]_vars

\* a callback with a forged state, turned away in a session that waits for
\* the state "s1" and holds a credential
C17_Witness ==
  /\ resp.op = "authorize_google"
  /\ resp.arg = "forged"
  /\ resp.status = 400
  /\ Has(session, "state")
  /\ session.state = "s1"
  /\ Has(session, "google_credentials")
  /\ log = <<>>
----------------------------------------------------------------------------
(* The QR detector of the web app, src/flask_app/utils/detect_and_draw_qr.py *)

\* what a call answers: the exception it raised ("" when none) and its value
Ok(v) == [raised |-> "", value |-> v]

Err(e) == [raised |-> e, value |-> None]

\* the texts a code can hold, written as the layers around the document:
\* plain text, hex of bytes that are no zlib stream, hex of a zlib stream of
\* bytes that are no UTF-8, and hex(zlib(utf8(document))) for a malformed
\* document, an object, a number, and brackets nested deeper than the
\* interpreter's recursion limit
QrTexts ==
  {<<"hello">>,
   <<"hex", "junk">>,
   <<"hex", "zlib", "FF FE">>,
   <<"hex", "zlib", "utf8", "{oops">>,
   <<"hex", "zlib", "utf8", "{\"a\": 1}">>,
   <<"hex", "zlib", "utf8", "3">>,
   <<"hex", "zlib", "utf8", "[[[[...">>}

\* line 23, bytes.fromhex: the bytes the hex digits spell
fromhex(s) ==
  IF Len(s) > 1 /\ Head(s) = "hex" THEN Ok(Tail(s)) ELSE Err("ValueError")

\* line 24, zlib.decompress
decompress(b) ==
  IF Len(b) > 1 /\ Head(b) = "zlib" THEN Ok(Tail(b)) ELSE Err("zlib.error")

\* line 24, bytes.decode('utf-8')
decode_utf8(b) ==
  IF Len(b) > 1 /\ Head(b) = "utf8" THEN Ok(Tail(b)) ELSE Err("UnicodeDecodeError")

\* line 25, json.loads: the document, JSONDecodeError for a malformed one,
\* RecursionError (a RuntimeError) for one nested beyond the recursion limit
json_loads(s) ==
  CASE s = <<"{\"a\": 1}">> -> Ok(<<"dict", "a", "1">>)
    [] s = <<"3">> -> Ok(<<"int", "3">>)
    [] s = <<"[[[[...">> -> Err("RecursionError")
    [] OTHER -> Err("JSONDecodeError")

\* line 27: the exceptions the except clause names, and their subclasses
CaughtByDecoder ==
  {"ValueError", "binascii.Error", "zlib.error", "UnicodeDecodeError", "JSONDecodeError"}

\* lines 9-34; qr_text_content is None (not a str) or Some(text)
decode_zlib_json_qr(qr_text_content) ==
  IF qr_text_content = None THEN Ok(None)
  ELSE LET compressed_data == fromhex(qr_text_content[1])
           raw == IF compressed_data.raised # "" THEN compressed_data
                  ELSE decompress(compressed_data.value)
           json_str == IF raw.raised # "" THEN raw ELSE decode_utf8(raw.value)
           decoded_data == IF json_str.raised # "" THEN json_str
                           ELSE json_loads(json_str.value)
       IN IF decoded_data.raised = "" THEN Ok(Some(decoded_data.value))
          ELSE IF decoded_data.raised \in CaughtByDecoder THEN Ok(None)
          ELSE decoded_data

\* coordinates are kept in fortieths of a pixel: with corners on whole
\* pixels, centroid + 1.1 * (p - centroid) = (44 p - (p1 + p2 + p3 + p4)) / 40
Scale == 40

\* the largest pixel coordinate of the picture (its width and height are
\* MaxCoord + 1) and of a corner QReader reports
MaxCoord == 2

Min(S) == CHOOSE m \in S : \A n \in S : m <= n

Max(S) == CHOOSE m \in S : \A n \in S : m >= n

\* np.clip
Clip(v, lo, hi) == IF v < lo THEN lo ELSE IF v > hi THEN hi ELSE v

\* int() of a float given in fortieths: truncation towards zero
int(v) == IF v >= 0 THEN v \div Scale ELSE -((-v) \div Scale)

\* lines 115-121: one coordinate of the four corners, expanded about the
\* centroid and clipped to the picture of size n
ExpandedAndClipped(coords, n) ==
  LET sum == coords[1] + coords[2] + coords[3] + coords[4]
  IN [i \in 1..4 |-> Clip(44 * coords[i] - sum, 0, (n - 1) * Scale)]

Xs(quad) == [i \in 1..4 |-> quad[i][1]]

Ys(quad) == [i \in 1..4 |-> quad[i][2]]

Range(f) == {f[i] : i \in DOMAIN f}

\* (variant: the end of the slice is the largest coordinate itself)
CropRectEndAtMax(quad, img_width, img_height) ==
  LET x_coords == Range(ExpandedAndClipped(Xs(quad), img_width))
      y_coords == Range(ExpandedAndClipped(Ys(quad), img_height))
  IN [crop_x_start |-> int(Min(x_coords)), crop_y_start |-> int(Min(y_coords)),
      crop_x_end |-> int(Max(x_coords)), crop_y_end |-> int(Max(y_coords))]

\* lines 127-132
CropRect(quad, img_width, img_height) ==
  LET x_coords == Range(ExpandedAndClipped(Xs(quad), img_width))
      y_coords == Range(ExpandedAndClipped(Ys(quad), img_height))
  IN [crop_x_start |-> int(Min(x_coords)), crop_y_start |-> int(Min(y_coords)),
      crop_x_end |-> int(Max(x_coords)) + 1, crop_y_end |-> int(Max(y_coords)) + 1]

\* line 135-136: the number of pixels of original_image[y0:y1, x0:x1]
\* (the bounds are not negative here, so the slice is the overlap)
SliceSize(r, img_width, img_height) ==
  LET w == Min({r.crop_x_end, img_width}) - Min({r.crop_x_start, img_width})
      h == Min({r.crop_y_end, img_height}) - Min({r.crop_y_start, img_height})
  IN (IF w > 0 THEN w ELSE 0) * (IF h > 0 THEN h ELSE 0)

-----------------------------------------------------------------------------

(* A candidate is what QReader reports for one located code: decode_raises *)
(* (QReader.decode raises), text (what it decodes, None when it cannot),   *)
(* quad (detection_info.get('quad_xy'): None or the four corners).         *)

\* the most candidates in one picture
MaxCodes == 2

Points == (0..MaxCoord) \X (0..MaxCoord)

Quads == [1..4 -> Points]

\* the picture a detector returns first: the buffer it is, the annotations
\* carried by the input, and the candidates a polygon was drawn for
Picture(buffer, image, polygons) ==
  [buffer |-> buffer, image |-> image, polygons |-> polygons]

NoFindings(display) ==
  [raised |-> "", display |-> display, made_modifications |-> FALSE,
   crops |-> <<>>, texts |-> <<>>, jsons |-> <<>>]

\* lines 95-152 for candidate i; a: the loop's variables so far
UtilsCandidate(a, i, c, img_width, img_height) ==
  IF a.raised # "" \/ c.decode_raises \/ c.text = None \/ c.quad = None THEN a
  ELSE
  LET copied == [a EXCEPT !.display.buffer = "display copy", !.made_modifications = TRUE]
      drawn == [copied EXCEPT !.display.polygons = @ \cup {i}]
      r == CropRect(c.quad[1], img_width, img_height)
      json_obj == decode_zlib_json_qr(c.text)
  IN IF r.crop_x_start < r.crop_x_end /\ r.crop_y_start < r.crop_y_end
          /\ SliceSize(r, img_width, img_height) > 0
     THEN [drawn EXCEPT !.crops = Append(@, [of |-> i, rect |-> r]),
                        !.texts = Append(@, c.text[1]),
                        !.jsons = IF json_obj.raised = "" THEN Append(@, json_obj.value) ELSE @,
                        !.raised = json_obj.raised]
     ELSE drawn

RECURSIVE UtilsLoop(_, _, _, _, _)
UtilsLoop(a, i, candidates, img_width, img_height) ==
  IF i > Len(candidates) THEN a
  ELSE UtilsLoop(UtilsCandidate(a, i, candidates[i], img_width, img_height),
                 i + 1, candidates, img_width, img_height)

\* src/flask_app/utils/detect_and_draw_qr.py lines 36-160
utils_detect_and_draw_qrcodes(image_input, candidates) ==
  IF image_input.type \notin {"str", "ndarray"} \/ ~image_input.loads
  THEN [raised |-> "", images |-> None, texts |-> None, jsons |-> None]
  ELSE
  LET original_image ==
        Picture(IF image_input.type = "str" THEN "loaded" ELSE "copy of input",
                image_input.image, {})
      a == UtilsLoop(NoFindings(original_image), 1, candidates, MaxCoord + 1, MaxCoord + 1)
  IN IF a.raised # ""
     THEN [raised |-> a.raised, images |-> None, texts |-> None, jsons |-> None]
     ELSE [raised |-> "", images |-> Some(<<a.display>> \o a.crops),
           texts |-> Some(a.texts), jsons |-> Some(a.jsons)]

\* src/detect_and_draw_qr.py lines 60-135 for candidate i: what decode
\* answers is printed only
ScriptCandidate(a, i, c, img_width, img_height) ==
  IF c.quad = None THEN a
  ELSE
  LET drawn == [a EXCEPT !.display.polygons = @ \cup {i}]
      r == CropRect(c.quad[1], img_width, img_height)
  IN IF r.crop_x_start < r.crop_x_end /\ r.crop_y_start < r.crop_y_end
          /\ SliceSize(r, img_width, img_height) > 0
     THEN [drawn EXCEPT !.crops = Append(@, [of |-> i, rect |-> r])]
     ELSE drawn

RECURSIVE ScriptLoop(_, _, _, _, _)
ScriptLoop(a, i, candidates, img_width, img_height) ==
  IF i > Len(candidates) THEN a
  ELSE ScriptLoop(ScriptCandidate(a, i, candidates[i], img_width, img_height),
                  i + 1, candidates, img_width, img_height)

\* src/detect_and_draw_qr.py lines 6-141, by candidate (with no candidate,
\* line 137 reads the undefined name image_path)
script_detect_and_draw_qrcodes(image_input, candidates) ==
  IF image_input.type \notin {"str", "ndarray"} \/ ~image_input.loads
  THEN [raised |-> "", images |-> None]
  ELSE IF candidates = <<>>
  THEN [raised |-> "NameError", images |-> None]
  ELSE
  LET a == ScriptLoop(NoFindings(Picture("display copy", image_input.image, {})),
                      1, candidates, MaxCoord + 1, MaxCoord + 1)
  IN [raised |-> "", images |-> Some(<<a.display>> \o a.crops)]

\* the candidates the detectors are tried with: decode raises, answers None,
\* or answers a text; no corners, or the corners of a square or of one point
CandidateSamples ==
  [decode_raises : {TRUE}, text : {None},
   quad : {None, Some([i \in 1..4 |-> <<0, 0>>])}]
    \cup [decode_raises : {FALSE},
          text : {None, Some(<<"hello">>), Some(<<"hex", "zlib", "utf8", "{\"a\": 1}">>)},
          quad : {None, Some(<<<<0, 0>>, <<1, 0>>, <<1, 1>>, <<0, 1>>>>),
                  Some([i \in 1..4 |-> <<MaxCoord, MaxCoord>>])}]

\* one decoded candidate for every text and every quad
DecodedCandidates ==
  [decode_raises : {FALSE}, text : {Some(t) : t \in QrTexts},
   quad : {Some(<<<<0, 0>>, <<1, 0>>, <<1, 1>>, <<0, 1>>>>)}]
    \cup [decode_raises : {FALSE}, text : {Some(<<"hello">>)}, quad : {Some(q) : q \in Quads}]

CandidateLists ==
  SeqsUpTo(CandidateSamples, MaxCodes) \cup {<<c>> : c \in DecodedCandidates}

QrImageInputs == {Array({}), Path([loads |-> TRUE]), Path([loads |-> FALSE])}

-----------------------------------------------------------------------------

(* The picture pipeline on its own: the inputs of one call are drawn in    *)
(* the initial state, and the call is made.                                *)

\* the longest directory listing
MaxFiles == 2

\* the files a directory can hold: a.jpg, b.PNG and notes.txt, each loading
\* or not, with or without a board and a QR code
DirFiles ==
  {[root |-> n[1], ext |-> n[2], loads |-> l, board |-> b, codes |-> c] :
     n \in {<<"a", ".jpg">>, <<"b", ".PNG">>, <<"notes", ".txt">>},
     l \in BOOLEAN, b \in {"nomarkers", "corners"}, c \in 0..1}

\* os.listdir: no two entries of a directory have the same name
DirListings ==
  {fs \in SeqsUpTo(DirFiles, MaxFiles) :
     \A i, j \in 1..Len(fs) : i # j => fs[i].root # fs[j].root}

ImageInputs ==
  {Array({}), Array({"qr"}), Path([loads |-> TRUE]), Path([loads |-> FALSE]),
   Tuple(detect_charuco_board(Array({}), TRUE, BoardFound("corners")))}

PipelineInputs ==
  [fn : {"process_image"}, load_ok : BOOLEAN, pe : ProcEnvs,
   return_image_object : BOOLEAN]
    \cup [fn : {"detect_charuco_board"}, image_input : ImageInputs,
          dictionary_ok : BOOLEAN, board : BoardOutcomes \ {"raise", "None"}]
    \cup [fn : {"detect_and_draw_qrcodes"}, image_input : ImageInputs, codes : 0..2]
    \cup [fn : {"process_images_in_directory"}, is_dir : BOOLEAN, files : DirListings]
    \cup [fn : {"_decode_zlib_json_qr"},
          qr_text_content : {None} \cup {Some(t) : t \in QrTexts}]
    \cup [fn : {"utils.detect_and_draw_qrcodes"}, image_input : QrImageInputs,
          candidates : CandidateLists]
    \cup [fn : {"script.detect_and_draw_qrcodes"}, image_input : QrImageInputs,
          candidates : SeqsUpTo(CandidateSamples, MaxCodes)]

PipelineInit ==
  /\ call \in {[NoCall EXCEPT !.args = {x}] : x \in PipelineInputs}
  /\ session = EmptySession
  /\ scratch = {}
  /\ expired = FALSE
  /\ resp = NoResp
  /\ log = <<>>
  /\ disk = NoDisk
  /\ req = NoReq

\* the call of fn on the drawn input x returns r
Returns(fn, x, r) ==
  /\ call.fn = ""
  /\ x \in call.args
  /\ x.fn = fn
  /\ call' = [call EXCEPT !.fn = fn, !.ret = {r}]
  /\ UNCHANGED <<web, disk, req>>

CallProcessImage ==
  \E x \in call.args :
    Returns("process_image", x, process_image(x.load_ok, x.pe, x.return_image_object))

CallDetectCharuco ==
  \E x \in call.args :
    Returns("detect_charuco_board", x,
            detect_charuco_board(x.image_input, x.dictionary_ok, BoardFound(x.board)))

CallDetectQr ==
  \E x \in call.args :
    Returns("detect_and_draw_qrcodes", x, detect_and_draw_qrcodes(x.image_input, x.codes))

CallBatch ==
  \E x \in call.args :
    Returns("process_images_in_directory", x,
            process_images_in_directory(x.is_dir, x.files))

CallDecodePayload ==
  \E x \in call.args :
    Returns("_decode_zlib_json_qr", x, decode_zlib_json_qr(x.qr_text_content))

CallUtilsDetectQr ==
  \E x \in call.args :
    Returns("utils.detect_and_draw_qrcodes", x,
            utils_detect_and_draw_qrcodes(x.image_input, x.candidates))

CallScriptDetectQr ==
  \E x \in call.args :
    Returns("script.detect_and_draw_qrcodes", x,
            script_detect_and_draw_qrcodes(x.image_input, x.candidates))

PipelineNext ==
  \/ CallProcessImage
  \/ CallDetectCharuco
  \/ CallDetectQr
  \/ CallBatch
  \/ CallDecodePayload
  \/ CallUtilsDetectQr
  \/ CallScriptDetectQr

PipelineSpec == PipelineInit /\ [][PipelineNext]_vars

\* the call made and what it returned
Called(fn, x, r) == call.fn = fn /\ x \in call.args /\ r \in call.ret

----------------------------------------------------------------------------
(* C18. For each supported picture of the directory that loads,            *)
(* process_images_in_directory saves the main picture as                   *)
(* <name>_qr_all<ext> and counts the picture as processed.                 *)

\* the pictures of the listing that have a supported extension and load
LoadedImages(files) ==
  {k \in 1..Len(files) :
     Lower(files[k].ext) \in SUPPORTED_IMAGE_EXTENSIONS /\ files[k].loads}

C18_BatchSavesEachImage ==
  \A x \in call.args, r \in call.ret :
    (Called("process_images_in_directory", x, r) /\ x.is_dir)
      => /\ \A k \in LoadedImages(x.files) :
              \E s \in r.saved : /\ s.root = x.files[k].root \o "_qr_all"
                                 /\ s.ext = x.files[k].ext
         /\ r.processed_files_count = Cardinality(LoadedImages(x.files))

----------------------------------------------------------------------------
(* C19. process_image never raises because of a detection stage. When the  *)
(* QR stage raises, the board stage still runs, on the picture without     *)
(* annotation; when the board stage raises or returns no picture, the      *)
(* final picture is the one the QR stage left and the codes found stay in  *)
(* the result.                                                             *)

\* the picture and the codes the QR stage gives when it does not raise
QrPicture(pe) == IF pe.qr \in {"drawn", "found"} THEN {"qr"} ELSE {}

QrCodes(pe) == IF pe.qr = "found" THEN <<"text">> ELSE <<>>

----------------------------------------------------------------------------
(* C20. charuco_detected is true exactly when the board stage returned a   *)
(* picture and at least one interpolated corner; markers without a corner  *)
(* give false.                                                             *)

\* the detector returned a picture and at least one interpolated corner
BoardReturnedCorners(pe) ==
  /\ pe.board # "raise"
  /\ LET t == BoardAnswer(QrPicture(pe), pe)
     IN t.img # None /\ t.charucoIds # None /\ t.charucoIds[1] >= 1

C20_MatchedIffCorners ==
  \A x \in call.args, r \in call.ret :
    (Called("process_image", x, r) /\ x.load_ok /\ ~x.return_image_object /\ ~r.raised)
      => /\ r.result.charuco_detected <=> BoardReturnedCorners(x.pe)
         /\ x.pe.board \in {"markers", "nocorners"} => ~r.result.charuco_detected

\* four markers, no corner: a picture comes back, not matched
C20_Witness ==
  \E x \in call.args, r \in call.ret :
    /\ Called("process_image", x, r)
    /\ x.load_ok /\ ~x.return_image_object /\ ~x.pe.enc
    /\ x.pe.board = "markers"
    /\ BoardAnswer(QrPicture(x.pe), x.pe).markerIds = Some(4)
    /\ BoardAnswer(QrPicture(x.pe), x.pe).img # None
    /\ ~r.raised
    /\ ~r.result.charuco_detected
----------------------------------------------------------------------------
(* Two sessions on one server. The server handles requests in threads      *)
(* (app.run, line 1272), and every session uses the same two folders,      *)
(* DRIVE_TEMP_FOLDER and UPLOAD_FOLDER (lines 102-109). A request is a     *)
(* sequence of file operations; the operations of two requests interleave. *)
(* disk: the files of the two folders, each with the session that wrote    *)
(* it last. req: for each session, the request it is in, the next          *)
(* operation, and what the request met on disk.                            *)

Sessions == {"A", "B"}

\* the display names of the pictures the sessions work with
SharedNames == {"a.jpg", "b c.jpg"}

\* the Drive item of that display name in the folder of session s
ItemOf(s, n) == [id |-> "id_" \o s, name |-> n]

IdleReq == [op |-> "", pc |-> "idle", path |-> "", uploaded |-> "", seen |-> {}]

WriterOf(d, folder, name) ==
  IF \E f \in d : f.folder = folder /\ f.name = name
  THEN (CHOOSE f \in d : f.folder = folder /\ f.name = name).writer
  ELSE ""

WriteFile(d, folder, name, s) ==
  {f \in d : ~(f.folder = folder /\ f.name = name)}
    \cup {[folder |-> folder, name |-> name, writer |-> s]}

RemoveFile(d, folder, name) == {f \in d : ~(f.folder = folder /\ f.name = name)}

\* the request of s met, in operation kind, a file written by w (none when
\* there was no file)
Seen(r, kind, w) ==
  IF w = "" THEN r ELSE [r EXCEPT !.seen = @ \cup {[kind |-> kind, of |-> w]}]

SharedInit ==
  /\ disk = NoDisk
  /\ req = [s \in Sessions |-> IdleReq]
  /\ call = NoCall
  /\ session = EmptySession
  /\ scratch = {}
  /\ expired = FALSE
  /\ resp = NoResp
  /\ log = <<>>

\* lines 372-378: a get_item in Drive mode for the item named n
StartDrive(s) ==
  \E n \in SharedNames :
    /\ req[s].pc = "idle"
    /\ req' = [req EXCEPT ![s] = [req[s] EXCEPT !.op = "drive", !.pc = "open",
                                                !.path = ScratchName(ItemOf(s, n)),
                                                !.seen = {}]]
    /\ UNCHANGED <<disk, web, call>>

\* line 404: io.FileIO(temp_image_path, 'wb') creates the file or empties it
OpenScratch(s) ==
  /\ req[s].pc = "open"
  /\ disk' = WriteFile(disk, "drive_temp_downloads", req[s].path, s)
  /\ req' = [req EXCEPT ![s] =
               [Seen(req[s], "overwrite",
                     WriterOf(disk, "drive_temp_downloads", req[s].path))
                  EXCEPT !.pc = "chunk"]]
  /\ UNCHANGED <<web, call>>

\* lines 405-409: the download writes through the open handle; a file that
\* was removed meanwhile stays removed
WriteChunk(s) ==
  /\ req[s].pc = "chunk"
  /\ LET w == WriterOf(disk, "drive_temp_downloads", req[s].path)
     IN /\ disk' = IF w = "" THEN disk
                   ELSE WriteFile(disk, "drive_temp_downloads", req[s].path, s)
        /\ req' = [req EXCEPT ![s] =
                     [Seen(req[s], "overwrite", w) EXCEPT !.pc = "process"]]
  /\ UNCHANGED <<web, call>>

\* lines 407 and 424-445: next_chunk raises; the flag is not set and the
\* file stays
DownloadFails(s) ==
  /\ req[s].pc = "chunk"
  /\ req' = [req EXCEPT ![s] = [req[s] EXCEPT !.pc = "idle"]]
  /\ UNCHANGED <<disk, web, call>>

\* line 413: process_image(temp_image_path) reads the file of that path
ReadScratch(s) ==
  /\ req[s].pc = "process"
  /\ req' = [req EXCEPT ![s] =
               [Seen(req[s], "read",
                     WriterOf(disk, "drive_temp_downloads", req[s].path))
                  EXCEPT !.pc = "remove"]]
  /\ UNCHANGED <<disk, web, call>>

\* lines 439-445: os.path.exists and os.remove
RemoveScratch(s) ==
  /\ req[s].pc = "remove"
  /\ disk' = RemoveFile(disk, "drive_temp_downloads", req[s].path)
  /\ req' = [req EXCEPT ![s] =
               [Seen(req[s], "remove",
                     WriterOf(disk, "drive_temp_downloads", req[s].path))
                  EXCEPT !.pc = "idle"]]
  /\ UNCHANGED <<web, call>>

\* lines 1025-1036: an upload of one picture named n
StartUpload(s) ==
  \E n \in SharedNames :
    /\ req[s].pc = "idle"
    /\ HasImageExt(secure_filename(n))
    /\ req' = [req EXCEPT ![s] = [req[s] EXCEPT !.op = "upload", !.pc = "save",
                                                !.path = secure_filename(n),
                                                !.seen = {}]]
    /\ UNCHANGED <<disk, web, call>>

\* lines 1033-1036 and 1047-1048: file.save(filepath); the name is stored in
\* the session
SaveUpload(s) ==
  /\ req[s].pc = "save"
  /\ disk' = WriteFile(disk, "uploads", req[s].path, s)
  /\ req' = [req EXCEPT ![s] =
               [Seen(req[s], "overwrite", WriterOf(disk, "uploads", req[s].path))
                  EXCEPT !.pc = "idle", !.uploaded = req[s].path]]
  /\ UNCHANGED <<web, call>>

\* lines 475-476: a get_item in Local mode reads the uploaded file
ReadLocal(s) ==
  /\ req[s].pc = "idle"
  /\ req[s].uploaded # ""
  /\ req' = [req EXCEPT ![s] =
               Seen([req[s] EXCEPT !.op = "local", !.path = req[s].uploaded, !.seen = {}],
                    "read", WriterOf(disk, "uploads", req[s].uploaded))]
  /\ UNCHANGED <<disk, web, call>>

SharedNext ==
  \E s \in Sessions :
    \/ StartDrive(s)
    \/ OpenScratch(s)
    \/ WriteChunk(s)
    \/ DownloadFails(s)
    \/ ReadScratch(s)
    \/ RemoveScratch(s)
    \/ StartUpload(s)
    \/ SaveUpload(s)
    \/ ReadLocal(s)

SharedSpec == SharedInit /\ [][SharedNext]_vars

\* C15: no file written by one session's get_item or upload is read,
\* overwritten or removed by a request of another session.
C15_SessionsDoNotInterfere ==
  \A s \in DOMAIN req : \A e \in req[s].seen : e.of = s
-----------------------------------------------------------------------------
(* Mode resolution *)

\* lines 505-506: the mode index() resolves, Server mode first
\* (`session.get('server_image_files', [])` is never None)
IndexMode(s) ==
  IF Get(s, "is_server_mode", FALSE) THEN "server"
  ELSE IF Get(s, "selected_google_drive_folder_id", "") # "" THEN "drive"
  ELSE "local"

\* lines 365, 446, 467 (and 1096-1108 in navigate): Drive mode first
RequestMode(s) ==
  IF DriveActive(s) THEN "drive" ELSE IF ServerActive(s) THEN "server" ELSE "local"

-----------------------------------------------------------------------------
(* Folder selection in an account that holds two folders: the Drive        *)
(* selection handlers and the login flow, with both folders as inputs.     *)

AccountFolders == DriveFolders \cup {"F2"}

AccountLinks == DriveLinks \cup {"https://drive.google.com/drive/folders/F2"}

SelectAccountFolder ==
  \E folder_id \in AccountFolders,
     d \in WithRefresh(ListingAnswers, DriveAfterRefresh, DriveEnvDefault, session, expired) :
    Answer("drive_select_folder", folder_id, drive_select_folder(Current, folder_id, d))

PasteAccountLink ==
  \E drive_link \in AccountLinks :
    \E d \in LinkEnvs(drive_link) :
      Answer("process_drive_link", extract_folder_id_from_url(drive_link),
             process_drive_link(Current, TRUE, drive_link, d))

FolderNext ==
  \/ SelectAccountFolder
  \/ PasteAccountLink
  \/ LoginGoogle
  \/ AuthorizeGoogle
  \/ LogoutGoogle
  \/ TokenExpires

FolderSpec == Init /\ [][FolderNext]_vars

\* C27: after drive_select_folder or process_drive_link has returned, the
\* stored Drive collection is empty or the listing of the folder that
\* selected_google_drive_folder_id names.
C27_ListIsOfSelectedFolder ==
  resp.op \in {"drive_select_folder", "process_drive_link"}
    /\ Has(session, "drive_image_files")
    => session.drive_image_files =
         DriveListing(Get(session, "selected_google_drive_folder_id", ""),
                      Len(session.drive_image_files))

-----------------------------------------------------------------------------
(* Selection requests that end in an error *)

SelectionOps == {"upload", "select_server_images", "process_drive_link"}

\* key k is stored in s2 as it was in s1
KeptKey(s1, s2, k) == Has(s1, k) => Has(s2, k) /\ s2[k] = s1[k]

\* C28: a collection-selection request that is answered with an error
\* leaves the collection that was active before it, and its cursor, as they
\* were.
C28_FailedSelectionKeepsCollection ==
  [][resp'.op \in SelectionOps /\ resp'.status >= 400
       => /\ KeptKey(session, session', ActiveListKey(session))
          /\ KeptKey(session, session', ActiveCursorKey(session))]_vars

-----------------------------------------------------------------------------
(* Navigation fields of an answered image request *)

\* C30: every get_item or navigate answer with status 200 reports the
\* cursor the active mode stores after the call, the length of the active
\* collection, has_next and has_prev as the position within it, and the
\* active mode as its source.
C30_AnswerMatchesSession ==
  resp.op \in ImageOps /\ resp.status = 200 =>
    /\ resp.payload # {}
    /\ \A p \in resp.payload :
         /\ Has(session, ActiveCursorKey(session))
         /\ p.current_index = session[ActiveCursorKey(session)]
         /\ p.total_images = Len(Get(session, ActiveListKey(session), <<>>))
         /\ p.has_next <=> p.current_index < p.total_images - 1
         /\ p.has_prev <=> p.current_index > 0
         /\ p.source = RequestMode(session)

\* navigate('next') answered the last item of a Drive collection of more
\* than one image
C30_Witness ==
  /\ resp.op = "navigate"
  /\ resp.arg = "next"
  /\ resp.status = 200
  /\ \E p \in resp.payload :
       /\ p.source = "drive"
       /\ p.total_images > 1
       /\ p.current_index = p.total_images - 1
       /\ ~p.has_next
       /\ p.has_prev

-----------------------------------------------------------------------------
(* Order of the steps of one Drive get_item *)

\* every event named a in l comes before every event named b
Before(l, a, b) == \A i \in PosOf(l, a), j \in PosOf(l, b) : i < j

\* the download that l records reported completion: its last chunk call
\* answered done and no chunk call raised
DownloadCompleted(l) ==
  /\ PosOf(l, "create") # {}
  /\ \E k \in PosOf(l, "remote") :
       /\ l[k].path = "done"
       /\ \A j \in PosOf(l, "remote") : j <= k /\ (j < k => l[j].path = "")

\* the credential check of lines 381-399 lets the request through: the
\* credentials are stored with every field and, when they need a refresh,
\* the exchange recorded in l answered
CredentialCheckPasses(s, exp, l) ==
  /\ Has(s, "google_credentials")
  /\ HasAllFields(s.google_credentials)
  /\ NeedsRefresh(s.google_credentials, exp)
       => \E i \in PosOf(l, "refresh") : l[i].path # ""

\* C23: in one Drive get_item the credential check (with its refresh) comes
\* first, then the scratch file is opened, then the chunks are requested,
\* then the file is processed; a request whose credential check does not
\* pass opens no file and requests no bytes, and processing only starts
\* after the download reported completion.
C23_DownloadStepsInOrder ==
  [][resp'.op \in ImageOps /\ DriveActive(session)
       => /\ Before(log', "refresh", "create")
          /\ Before(log', "create", "remote")
          /\ Before(log', "remote", "process")
          /\ Before(log', "refresh", "process")
          /\ ~CredentialCheckPasses(session, expired, log')
               => PosOf(log', "create") = {} /\ PosOf(log', "remote") = {}
          /\ PosOf(log', "process") # {} => DownloadCompleted(log')]_vars

\* an image was processed after a download of more than one chunk
C23_Witness ==
  /\ resp.op \in ImageOps
  /\ resp.status = 200
  /\ Cardinality(PosOf(log, "remote")) > 1
  /\ PosOf(log, "process") # {}
  /\ DownloadCompleted(log)

-----------------------------------------------------------------------------
(* A client that keeps pressing one navigation button.  call names the     *)
(* request it repeats; the session starts with a collection of one of the  *)
(* three modes and the cursor anywhere in it.  The server answers every    *)
(* request it is sent (weak fairness of the request); what the fetch of    *)
(* each request meets is left open.                                        *)

FullCredentials == [fields |-> RequiredFields, token |-> "t0", has_rt |-> TRUE]

\* the sessions the selection handlers store: an upload of n images, the
\* server directory, a Drive folder of n images
SelectedSessions ==
  {upload_files(Ctx(EmptySession, {}, FALSE), TRUE,
                [k \in 1..n |-> [filename |-> NameAt(k), save_ok |-> TRUE]]).sess :
     n \in 1..MaxItems}
  \cup {select_server_images(Ctx(EmptySession, {}, FALSE), TRUE, TRUE, walk).sess :
          walk \in {w \in WalkOrders : w # <<>>}}
  \cup {StoreDriveImages(Put(Put(EmptySession, "google_credentials", FullCredentials),
                             "selected_google_drive_folder_id", "F1"),
                         DriveListing("F1", n)) : n \in 1..MaxItems}

\* the same sessions after a get_item has moved the cursor to item k
BrowseSessions ==
  UNION {{Put(s, ActiveCursorKey(s), k) : k \in 0..(Len(s[ActiveListKey(s)]) - 1)} :
           s \in SelectedSessions}

BrowseInit ==
  /\ session \in BrowseSessions
  /\ call \in {[NoCall EXCEPT !.fn = "navigate", !.args = {direction}] :
                 direction \in {"next", "prev"}}
  /\ expired = FALSE
  /\ scratch = {}
  /\ resp = NoResp
  /\ log = <<>>
  /\ disk = NoDisk
  /\ req = NoReq

\* the client's next request is answered
Browse ==
  \E direction \in call.args :
    \E e \in ImageEnvs(ClampIndex(direction,
                                  Get(session, ActiveCursorKey(session), 0),
                                  Len(Get(session, ActiveListKey(session), <<>>)))) :
      \E o \in {navigate(Current, direction, e)} : Answer("navigate", direction, o)

BrowseSpec == BrowseInit /\ [][Browse]_vars /\ WF_vars(Browse)

StoredCursor == Get(session, ActiveCursorKey(session), 0)

\* the cursor is at the end the client is heading for
AtEnd ==
  IF call.args = {"next"}
  THEN StoredCursor = Len(Get(session, ActiveListKey(session), <<>>)) - 1
  ELSE StoredCursor = 0

-----------------------------------------------------------------------------
(* C24. _decode_zlib_json_qr never raises to its caller: for every text, a *)
(* failure at any stage (hex, decompression, UTF-8, document) gives None,  *)
(* and the detector still returns the finding of that code with its plain  *)
(* text.                                                                   *)

\* the texts that are the hex of a compressed UTF-8 JSON document json.loads
\* accepts
WellFormedPayloads ==
  {<<"hex", "zlib", "utf8", "{\"a\": 1}">>, <<"hex", "zlib", "utf8", "3">>}

\* candidate i is decoded and its crop is kept (lines 103, 105, 134, 136)
Kept(c) ==
  /\ ~c.decode_raises /\ c.text # None /\ c.quad # None
  /\ LET r == CropRect(c.quad[1], MaxCoord + 1, MaxCoord + 1)
     IN /\ r.crop_x_start < r.crop_x_end /\ r.crop_y_start < r.crop_y_end
        /\ SliceSize(r, MaxCoord + 1, MaxCoord + 1) > 0

\* counterexample: a text whose document nests too deep for json.loads
C24_DecoderNeverRaises ==
  \A x \in call.args, r \in call.ret :
    /\ Called("_decode_zlib_json_qr", x, r)
         => /\ r.raised = ""
            /\ (x.qr_text_content = None \/ x.qr_text_content[1] \notin WellFormedPayloads)
                 => r.value = None
    /\ (Called("utils.detect_and_draw_qrcodes", x, r) /\ x.image_input.loads)
         => /\ r.raised = ""
            /\ \A i \in 1..Len(x.candidates) :
                 Kept(x.candidates[i])
                   => \E k \in 1..Len(r.texts[1]) :
                        /\ r.images[1][k + 1].of = i
                        /\ r.texts[1][k] = x.candidates[i].text[1]
                        /\ (x.candidates[i].text[1] \notin WellFormedPayloads
                              => r.jsons[1][k] = None)


-----------------------------------------------------------------------------
(* C25. For every expanded and clipped quad the crop rectangle is          *)
(* x0 = floor(min x), x1 = ceil(max x) + 1 (exclusive end), the same for   *)
(* y; x0 < x1 and y0 < y1 for every quad with at least two distinct x and  *)
(* two distinct y values; a rectangle with x0 >= x1 or y0 >= y1 is         *)
(* discarded without raising.                                              *)

\* floor and ceiling of a value given in fortieths, from their definitions
Floor(v) == CHOOSE k \in 0..(MaxCoord + 1) : k * Scale <= v /\ v < (k + 1) * Scale

Ceil(v) == CHOOSE k \in 0..(MaxCoord + 1) : (k - 1) * Scale < v /\ v <= k * Scale

\* the expanded and clipped corners of candidate c, by coordinate
ExpandedXs(c) == Range(ExpandedAndClipped(Xs(c.quad[1]), MaxCoord + 1))

ExpandedYs(c) == Range(ExpandedAndClipped(Ys(c.quad[1]), MaxCoord + 1))

\* candidate c was decoded and has corners: its rectangle is computed
Cropped(c) == ~c.decode_raises /\ c.text # None /\ c.quad # None

\* the rectangles of the crops returned for candidate i
RectsOf(r, i) ==
  {r.images[1][k].rect : k \in {j \in 2..Len(r.images[1]) : r.images[1][j].of = i}}

\* the payload decoder returns for every text of the call (C24 is about the
\* texts for which it does not)
PayloadsReturn(x) ==
  \A i \in 1..Len(x.candidates) :
    x.candidates[i].text # None => decode_zlib_json_qr(x.candidates[i].text).raised = ""

-----------------------------------------------------------------------------
(* C21. detect_and_draw_qrcodes returns a finding (crop, text, structured  *)
(* value) for a candidate only if its text was decoded and its crop        *)
(* rectangle is non-degenerate and non-empty; a candidate whose decode     *)
(* fails or raises gets no finding and no polygon on the annotated image.  *)

DetectorCalled(x, r) ==
  \/ Called("utils.detect_and_draw_qrcodes", x, r)
  \/ Called("script.detect_and_draw_qrcodes", x, r)

\* QReader.decode gave a text for candidate c
Decoded(c) == ~c.decode_raises /\ c.text # None

\* the candidates for which the answer holds a crop
WithCrop(r) == {r.images[1][k].of : k \in 2..Len(r.images[1])}

\* counterexample: the detector of src/detect_and_draw_qr.py draws and
\* crops every candidate that has corners, decoded or not
C21_FindingOnlyIfDecoded ==
  \A x \in call.args, r \in call.ret :
    (DetectorCalled(x, r) /\ r.raised = "" /\ r.images # None)
      => /\ \A k \in 2..Len(r.images[1]) :
              LET crop == r.images[1][k]
              IN /\ Decoded(x.candidates[crop.of])
                 /\ crop.rect.crop_x_start < crop.rect.crop_x_end
                 /\ crop.rect.crop_y_start < crop.rect.crop_y_end
                 /\ SliceSize(crop.rect, MaxCoord + 1, MaxCoord + 1) > 0
         /\ \A i \in 1..Len(x.candidates) :
              ~Decoded(x.candidates[i])
                => i \notin WithCrop(r) /\ i \notin r.images[1][1].polygons
         /\ x.fn = "utils.detect_and_draw_qrcodes"
              => /\ Len(r.texts[1]) = Len(r.images[1]) - 1
                 /\ Len(r.jsons[1]) = Len(r.images[1]) - 1
                 /\ \A k \in 1..Len(r.texts[1]) :
                      r.texts[1][k] = x.candidates[r.images[1][k + 1].of].text[1]

-----------------------------------------------------------------------------
(* C22. On an image in which no code is confirmed (no candidate, or no     *)
(* candidate that decodes) the detection stage returns the input buffer    *)
(* unmodified as its image and an empty finding list, without raising and  *)
(* without making an annotated copy.                                       *)

NoneConfirmed(candidates) ==
  \A i \in 1..Len(candidates) : ~Decoded(candidates[i])

\* counterexample: the detector of src/detect_and_draw_qr.py raises when
\* there is no candidate, and copies and draws when none decodes. (The
\* buffer asked for here is the one the detector works on, not the display
\* copy; both detectors copy an array they are given before that.)
C22_NothingConfirmedNothingChanged ==
  \A x \in call.args, r \in call.ret :
    (DetectorCalled(x, r) /\ x.image_input.loads /\ NoneConfirmed(x.candidates))
      => /\ r.raised = ""
         /\ r.images # None
         /\ Len(r.images[1]) = 1
         /\ r.images[1][1].buffer # "display copy"
         /\ r.images[1][1].polygons = {}
         /\ r.images[1][1].image = x.image_input.image
         /\ x.fn = "utils.detect_and_draw_qrcodes"
              => r.texts = Some(<<>>) /\ r.jsons = Some(<<>>)

====
